---------------------------- MODULE Spec2Model ----------------------------
(***************************************************************************)
(* Model of the vyakarana package: the identifier and carryover classes    *)
(* (models/identifiers.py, models/carryover.py), the word analyses and     *)
(* type classifications (models/sutras/analysis.py, classification.py),    *)
(* the sutra and its collection (models/sutras/core.py) and the loader     *)
(* (readers/ashtadhyayi_readers.py), all under src/vyakarana.              *)
(*                                                                         *)
(* A Python str is a sequence of one-character strings.  A call either     *)
(* returns a value or raises: its outcome is [raised, val], raised being   *)
(* "none" or the name of the exception class that escaped.                 *)
(***************************************************************************)
EXTENDS Integers, Sequences, FiniteSets, TLC

VARIABLES
    pc,     \* position of the caller: which call is next, or "done"
    args,   \* the arguments of the call under way
    ret,    \* outcome of the first call
    other,  \* outcome of a second call, the collection that is queried,
            \* or the sutras a load has appended so far
    cmp     \* results of the comparison methods, properties and queries,
            \* or the checks a load has made so far

vars == <<pc, args, ret, other, cmp>>

Ok(v) == [raised |-> "none", val |-> v]
Raise(e) == [raised |-> e, val |-> <<>>]
Pending == [raised |-> "pending", val |-> <<>>]

\* statement sequencing: when r raised, the exception goes on; otherwise the
\* rest of the block, F, runs on r's value
Then(r, F(_)) == IF r.raised # "none" THEN r ELSE F(r.val)

(***************************************************************************)
(* Python builtins used by the code.                                       *)
(***************************************************************************)

\* str.isspace() characters of the model's alphabet
Whitespace == {" ", "\t"}

\* int() of one decimal digit character; "dev1" stands for DEVANAGARI DIGIT
\* ONE, which int() accepts like any Unicode decimal digit
DigitChars == {"0", "1", "2", "3", "4", "5", "6", "7", "8", "9", "dev1"}

DigitVal(c) ==
    CASE c = "0" -> 0 [] c = "1" -> 1 [] c = "2" -> 2 [] c = "3" -> 3
      [] c = "4" -> 4 [] c = "5" -> 5 [] c = "6" -> 6 [] c = "7" -> 7
      [] c = "8" -> 8 [] c = "9" -> 9 [] c = "dev1" -> 1

RECURSIVE LStrip(_)
LStrip(s) ==
    IF s # <<>> /\ Head(s) \in Whitespace THEN LStrip(Tail(s)) ELSE s

RECURSIVE RStrip(_)
RStrip(s) ==
    IF s # <<>> /\ s[Len(s)] \in Whitespace
    THEN RStrip(SubSeq(s, 1, Len(s) - 1))
    ELSE s

\* str.strip()
Strip(s) == RStrip(LStrip(s))

\* sep in s, for a one-character sep
Contains(s, c) == \E i \in 1..Len(s) : s[i] = c

\* str.split(sep): scans left to right, cutting at each non-overlapping
\* occurrence of sep; always returns at least one piece
RECURSIVE SplitFrom(_, _, _, _)
SplitFrom(s, sep, i, cur) ==
    IF i > Len(s) THEN <<cur>>
    ELSE IF i + Len(sep) - 1 <= Len(s) /\ SubSeq(s, i, i + Len(sep) - 1) = sep
         THEN <<cur>> \o SplitFrom(s, sep, i + Len(sep), <<>>)
         ELSE SplitFrom(s, sep, i + 1, Append(cur, s[i]))

Split(s, sep) == SplitFrom(s, sep, 1, <<>>)

\* the digits of an int() literal: decimal digits, single underscores allowed
\* between digits only
RECURSIVE DigitsValue(_, _, _)
DigitsValue(s, i, acc) ==
    IF i > Len(s) THEN Ok(acc)
    ELSE IF s[i] \in DigitChars
         THEN DigitsValue(s, i + 1, acc * 10 + DigitVal(s[i]))
         ELSE IF s[i] = "_" /\ i > 1 /\ i < Len(s)
                 /\ s[i - 1] \in DigitChars /\ s[i + 1] \in DigitChars
              THEN DigitsValue(s, i + 1, acc)
              ELSE Raise("ValueError")

\* int(s) for a str s, base 10: surrounding whitespace is ignored, one sign
\* is allowed, then at least one digit; anything else raises ValueError
Magnitude(digits) ==
    IF digits = <<>> THEN Raise("ValueError") ELSE DigitsValue(digits, 1, 0)

SignedValue(t) ==
    IF t = <<>> THEN Raise("ValueError")
    ELSE IF Head(t) = "-" THEN Then(Magnitude(Tail(t)), LAMBDA v : Ok(0 - v))
    ELSE IF Head(t) = "+" THEN Magnitude(Tail(t))
    ELSE Magnitude(t)

PyInt(s) == SignedValue(Strip(s))

\* str(n) of a non-negative int, as an f-string formats it
RECURSIVE NatToStr(_)
NatToStr(n) ==
    LET d == <<"0", "1", "2", "3", "4", "5", "6", "7", "8", "9">>[(n % 10) + 1]
    IN  IF n < 10 THEN <<d>> ELSE Append(NatToStr(n \div 10), d)

IntToStr(n) == IF n < 0 THEN <<"-">> \o NatToStr(0 - n) ELSE NatToStr(n)

\* tuple comparisons: decided by the first position where the tuples differ,
\* by the lengths when there is none
RECURSIVE TupleLt(_, _)
TupleLt(s, t) ==
    IF s = <<>> \/ t = <<>> THEN Len(s) < Len(t)
    ELSE IF Head(s) = Head(t) THEN TupleLt(Tail(s), Tail(t))
         ELSE Head(s) < Head(t)

RECURSIVE TupleLe(_, _)
TupleLe(s, t) ==
    IF s = <<>> \/ t = <<>> THEN Len(s) <= Len(t)
    ELSE IF Head(s) = Head(t) THEN TupleLe(Tail(s), Tail(t))
         ELSE Head(s) <= Head(t)

RECURSIVE TupleGt(_, _)
TupleGt(s, t) ==
    IF s = <<>> \/ t = <<>> THEN Len(s) > Len(t)
    ELSE IF Head(s) = Head(t) THEN TupleGt(Tail(s), Tail(t))
         ELSE Head(s) > Head(t)

RECURSIVE TupleGe(_, _)
TupleGe(s, t) ==
    IF s = <<>> \/ t = <<>> THEN Len(s) >= Len(t)
    ELSE IF Head(s) = Head(t) THEN TupleGe(Tail(s), Tail(t))
         ELSE Head(s) >= Head(t)

\* hash(tuple of ints): a function of the tuple's elements alone, folded
\* into a fixed-width word (width reduced from CPython's 64 bits)
RECURSIVE TupleHash(_)
TupleHash(t) ==
    IF t = <<>> THEN 7
    ELSE ((TupleHash(SubSeq(t, 1, Len(t) - 1)) * 31) + (t[Len(t)] % 65536)) % 65536

(***************************************************************************)
(* identifiers.py                                                          *)
(***************************************************************************)

\* SutraIdentifier(adhyaya, pada, number): the dataclass __init__ followed by
\* __post_init__; oid is the identity of the new object
SutraIdentifier_init_NoPadaCheck(oid, adhyaya, pada, number) ==
    IF ~(1 <= adhyaya /\ adhyaya <= 8) THEN Raise("ValueError")
    ELSE IF number < 1 THEN Raise("ValueError")
    ELSE Ok([oid |-> oid, adhyaya |-> adhyaya, pada |-> pada, number |-> number])

SutraIdentifier_init_NoNumberCheck(oid, adhyaya, pada, number) ==
    IF ~(1 <= adhyaya /\ adhyaya <= 8) THEN Raise("ValueError")
    ELSE IF ~(1 <= pada /\ pada <= 4) THEN Raise("ValueError")
    ELSE Ok([oid |-> oid, adhyaya |-> adhyaya, pada |-> pada, number |-> number])

SutraIdentifier_init(oid, adhyaya, pada, number) ==
    IF ~(1 <= adhyaya /\ adhyaya <= 8) THEN Raise("ValueError")
    ELSE IF ~(1 <= pada /\ pada <= 4) THEN Raise("ValueError")
    ELSE IF number < 1 THEN Raise("ValueError")
    ELSE Ok([oid |-> oid, adhyaya |-> adhyaya, pada |-> pada, number |-> number])

\* SutraIdentifier.reference
reference(self) ==
    IntToStr(self.adhyaya) \o <<".">> \o IntToStr(self.pada) \o <<".">>
        \o IntToStr(self.number)

IdTuple(self) == <<self.adhyaya, self.pada, self.number>>

SutraIdentifier_eq(self, o) == IdTuple(self) = IdTuple(o)

SutraIdentifier_lt_PadaFirst(self, o) ==
    TupleLt(<<self.pada, self.adhyaya, self.number>>,
            <<o.pada, o.adhyaya, o.number>>)

SutraIdentifier_lt(self, o) == TupleLt(IdTuple(self), IdTuple(o))

SutraIdentifier_le(self, o) == TupleLe(IdTuple(self), IdTuple(o))

SutraIdentifier_gt(self, o) == TupleGt(IdTuple(self), IdTuple(o))

SutraIdentifier_ge(self, o) == TupleGe(IdTuple(self), IdTuple(o))

SutraIdentifier_hash(self) == TupleHash(IdTuple(self))

\* identifier.<name> = value: the class is a plain dataclass, it defines
\* no __setattr__ and is not frozen, so the attribute is rebound and
\* __post_init__ is not run again
SutraIdentifier_setattr(self, name, value) == [self EXCEPT ![name] = value]

\* SutraReference(sutra_id, text_portion)
SutraReference(sutra_id, text_portion) ==
    [sutra_id |-> sutra_id, text_portion |-> text_portion]

(***************************************************************************)
(* enums.py, carryover.py                                                  *)
(***************************************************************************)

\* CarryoverType members
ANUVRITTI == "anuvritti"
ADHIKARA == "adhikara"

\* any value passed as carryover_type that is no CarryoverType member
\* (Python checks no argument types)
NotACarryoverType == "not-a-member"

\* the dataclass constructor SutraCarryover(carryover_type, references,
\* combined_text)
SutraCarryover(carryover_type, references, combined_text) ==
    [carryover_type |-> carryover_type, references |-> references,
     combined_text |-> combined_text]

\* `not carryover_text or not carryover_text.strip()`
IsBlank(carryover_text) == carryover_text = <<>> \/ Strip(carryover_text) = <<>>

\* the minimum length of the fused anuvritti reference
MinFusedLen_Three == 5 - 2

MinFusedLen == 5

\* the exception classes of `except (ValueError, IndexError)`
Caught_OnlyIndexError(exc) == exc = "IndexError"

Caught(exc) == exc \in {"ValueError", "IndexError"}

\* a try block around r whose except clause skips the entry: the entry
\* contributes r's references, none when a caught exception was raised, and
\* any other exception goes on to the caller
TryAppend(r) ==
    IF r.raised = "none" THEN r
    ELSE IF Caught(r.raised) THEN Ok(<<>>) ELSE r

\* ref_str[i] of the anuvritti branch, then int() of it
DigitAt(ref_str, i) ==
    IF Len(ref_str) < i THEN Raise("IndexError") ELSE PyInt(<<ref_str[i]>>)

\* the try body of the anuvritti branch
DecodeFused_From1(ref_str, text, oid) ==
    Then(DigitAt(ref_str, 1), LAMBDA adhyaya :
    Then(DigitAt(ref_str, 2), LAMBDA pada :
    Then(PyInt(SubSeq(ref_str, 2, Len(ref_str))), LAMBDA number :
    Then(SutraIdentifier_init(oid, adhyaya, pada, number), LAMBDA sutra_id :
    Ok(<<SutraReference(sutra_id, text)>>)))))

DecodeFused(ref_str, text, oid) ==
    Then(DigitAt(ref_str, 1), LAMBDA adhyaya :
    Then(DigitAt(ref_str, 2), LAMBDA pada :
    Then(PyInt(SubSeq(ref_str, 3, Len(ref_str))), LAMBDA number :
    Then(SutraIdentifier_init(oid, adhyaya, pada, number), LAMBDA sutra_id :
    Ok(<<SutraReference(sutra_id, text)>>)))))

\* the try body of the adhikara branch
DecodeParts_Swapped(parts, text, oid) ==
    Then(PyInt(Strip(parts[2])), LAMBDA adhyaya :
    Then(PyInt(Strip(parts[4])), LAMBDA pada :
    Then(PyInt(Strip(parts[3])), LAMBDA number :
    Then(SutraIdentifier_init(oid, adhyaya, pada, number), LAMBDA sutra_id :
    Ok(<<SutraReference(sutra_id, text)>>)))))

DecodeParts(parts, text, oid) ==
    Then(PyInt(Strip(parts[2])), LAMBDA adhyaya :
    Then(PyInt(Strip(parts[3])), LAMBDA pada :
    Then(PyInt(Strip(parts[4])), LAMBDA number :
    Then(SutraIdentifier_init(oid, adhyaya, pada, number), LAMBDA sutra_id :
    Ok(<<SutraReference(sutra_id, text)>>)))))

\* the anuvritti branch on the stripped parts[1]
FusedBranch(ref_str, text, oid) ==
    IF Len(ref_str) >= MinFusedLen
    THEN TryAppend(DecodeFused(ref_str, text, oid))
    ELSE Ok(<<>>)

\* the kind dispatch of one loop iteration, text being the stripped parts[0]
DecodeEntry_ElseAnuvritti(parts, text, carryover_type, oid) ==
    IF carryover_type = ADHIKARA
    THEN IF Len(parts) = 4 THEN TryAppend(DecodeParts(parts, text, oid))
         ELSE Ok(<<>>)
    ELSE IF Len(parts) = 2 THEN FusedBranch(Strip(parts[2]), text, oid)
         ELSE Ok(<<>>)

\* the dispatch with both formats tried under either kind
DecodeEntry_EitherShape(parts, text, carryover_type, oid) ==
    IF carryover_type \notin {ANUVRITTI, ADHIKARA} THEN Ok(<<>>)
    ELSE IF Len(parts) = 2 THEN FusedBranch(Strip(parts[2]), text, oid)
    ELSE IF Len(parts) = 4 THEN TryAppend(DecodeParts(parts, text, oid))
    ELSE Ok(<<>>)

DecodeEntry(parts, text, carryover_type, oid) ==
    IF carryover_type = ANUVRITTI
    THEN IF Len(parts) = 2 THEN FusedBranch(Strip(parts[2]), text, oid)
         ELSE Ok(<<>>)
    ELSE IF carryover_type = ADHIKARA
    THEN IF Len(parts) = 4 THEN TryAppend(DecodeParts(parts, text, oid))
         ELSE Ok(<<>>)
    ELSE Ok(<<>>)

\* one loop iteration from `parts = entry.split("$")` on
ParseParts(parts, carryover_type, oid) ==
    IF Len(parts) < 2 THEN Ok(<<>>)
    ELSE DecodeEntry(parts, Strip(parts[1]), carryover_type, oid)

\* one iteration of `for entry in entries`: the references it appends
ParseEntry(entry, carryover_type, oid) ==
    IF ~Contains(entry, "$") THEN Ok(<<>>)
    ELSE ParseParts(Split(entry, <<"$">>), carryover_type, oid)

\* the loop over the entries from the i-th on, references holding what the
\* earlier iterations appended
RECURSIVE ParseEntries_StopAtBad(_, _, _, _)
ParseEntries_StopAtBad(entries, i, carryover_type, references) ==
    IF i > Len(entries) THEN Ok(references)
    ELSE Then(ParseEntry(entries[i], carryover_type, i), LAMBDA new :
              IF new = <<>> THEN Ok(references)
              ELSE ParseEntries_StopAtBad(entries, i + 1, carryover_type,
                                          references \o new))

RECURSIVE ParseEntries(_, _, _, _)
ParseEntries(entries, i, carryover_type, references) ==
    IF i > Len(entries) THEN Ok(references)
    ELSE Then(ParseEntry(entries[i], carryover_type, i), LAMBDA new :
              ParseEntries(entries, i + 1, carryover_type, references \o new))

\* SutraCarryover.from_string(carryover_text, carryover_type)
from_string_StoresStripped(carryover_text, carryover_type) ==
    IF IsBlank(carryover_text)
    THEN Ok(SutraCarryover(carryover_type, <<>>, Strip(carryover_text)))
    ELSE Then(ParseEntries(Split(carryover_text, <<"#", "#">>), 1,
                           carryover_type, <<>>),
              LAMBDA references :
                  Ok(SutraCarryover(carryover_type, references,
                                    Strip(carryover_text))))

from_string(carryover_text, carryover_type) ==
    IF IsBlank(carryover_text)
    THEN Ok(SutraCarryover(carryover_type, <<>>, carryover_text))
    ELSE Then(ParseEntries(Split(carryover_text, <<"#", "#">>), 1,
                           carryover_type, <<>>),
              LAMBDA references :
                  Ok(SutraCarryover(carryover_type, references, carryover_text)))

anuvritti_from_string(anuvritti_text) == from_string(anuvritti_text, ANUVRITTI)

adhikara_from_string(adhikara_text) == from_string(adhikara_text, ADHIKARA)

is_anuvritti(self) == self.carryover_type = ANUVRITTI

is_adhikara(self) == self.carryover_type = ADHIKARA

\* Backlinks(anuvritti, adhikara): the dataclass __init__ and __post_init__
Backlinks_init_ChecksAnuvrittiOnly(anuvritti, adhikara) ==
    IF ~is_anuvritti(anuvritti) THEN Raise("ValueError")
    ELSE Ok([anuvritti |-> anuvritti, adhikara |-> adhikara])

Backlinks_init(anuvritti, adhikara) ==
    IF ~is_anuvritti(anuvritti) THEN Raise("ValueError")
    ELSE IF ~is_adhikara(adhikara) THEN Raise("ValueError")
    ELSE Ok([anuvritti |-> anuvritti, adhikara |-> adhikara])

\* Backlinks.from_strings(anuvritti_text, adhikara_text)
Backlinks_from_strings(anuvritti_text, adhikara_text) ==
    Then(anuvritti_from_string(anuvritti_text), LAMBDA anuvritti :
    Then(adhikara_from_string(adhikara_text), LAMBDA adhikara :
    Backlinks_init(anuvritti, adhikara)))

\* SutraCarryover.__len__
SutraCarryover_len(self) == Len(self.references)

\* Backlinks.has_anuvritti, Backlinks.has_adhikara
has_anuvritti_ByReferences(self) == SutraCarryover_len(self.anuvritti) > 0

has_anuvritti(self) == Strip(self.anuvritti.combined_text) # <<>>

has_adhikara(self) == Strip(self.adhikara.combined_text) # <<>>

\* Backlinks.has_any_carryover
has_any_carryover(self) == has_anuvritti(self) \/ has_adhikara(self)

\* Backlinks.total_references
total_references(self) ==
    SutraCarryover_len(self.anuvritti) + SutraCarryover_len(self.adhikara)

(***************************************************************************)
(* models/sutras/analysis.py                                               *)
(***************************************************************************)

\* PadaAnalysis(word, gender, vibhakti, vachana): the dataclass __init__
\* followed by __post_init__
PadaAnalysis_init_NoCoupling(word, gender, vibhakti, vachana) ==
    IF ~(0 <= vibhakti /\ vibhakti <= 8) THEN Raise("ValueError")
    ELSE IF ~(0 <= vachana /\ vachana <= 3) THEN Raise("ValueError")
    ELSE Ok([word |-> word, gender |-> gender,
             vibhakti |-> vibhakti, vachana |-> vachana])

PadaAnalysis_init(word, gender, vibhakti, vachana) ==
    IF ~(0 <= vibhakti /\ vibhakti <= 8) THEN Raise("ValueError")
    ELSE IF ~(0 <= vachana /\ vachana <= 3) THEN Raise("ValueError")
    ELSE IF (vibhakti = 0) # (vachana = 0) THEN Raise("ValueError")
    ELSE Ok([word |-> word, gender |-> gender,
             vibhakti |-> vibhakti, vachana |-> vachana])

\* PadaAnalysis.is_avyaya
is_avyaya(self) == self.vibhakti = 0 /\ self.vachana = 0


\* PadaVibhaga(words)
PadaVibhaga(words) == [words |-> words]

\* the try block around the two int() calls, the construction and the
\* append: `except (ValueError, IndexError)` skips the entry
TryAnalyse(r) ==
    IF r.raised = "none" THEN Ok(<<r.val>>)
    ELSE IF r.raised \in {"ValueError", "IndexError"} THEN Ok(<<>>) ELSE r

\* the body of the try block
AnalyseWord(components) ==
    Then(PyInt(components[3]), LAMBDA vibhakti :
    Then(PyInt(components[4]), LAMBDA vachana :
    PadaAnalysis_init(components[1], components[2], vibhakti, vachana)))

\* one loop iteration from `components = part.split("$")` on
AnalyseComponents_ExactlyFour(components) ==
    IF Len(components) = 4 THEN TryAnalyse(AnalyseWord(components))
    ELSE Ok(<<>>)

AnalyseComponents(components) ==
    IF Len(components) >= 4 THEN TryAnalyse(AnalyseWord(components))
    ELSE Ok(<<>>)

\* one iteration of `for part in word_parts`: the analyses it appends
AnalysePart(part) ==
    IF Strip(part) = <<>> THEN Ok(<<>>)
    ELSE AnalyseComponents(Split(part, <<"$">>))

\* the loop over the parts from the i-th on
RECURSIVE AnalyseParts(_, _, _)
AnalyseParts(word_parts, i, words) ==
    IF i > Len(word_parts) THEN Ok(words)
    ELSE Then(AnalysePart(word_parts[i]), LAMBDA new :
              AnalyseParts(word_parts, i + 1, words \o new))

\* PadaVibhaga.from_string(pc_string)
PadaVibhaga_from_string(pc_string) ==
    IF pc_string = <<>> \/ Strip(pc_string) = <<>>
    THEN Ok(PadaVibhaga(<<>>))
    ELSE Then(AnalyseParts(Split(pc_string, <<"#", "#">>), 1, <<>>),
              LAMBDA words : Ok(PadaVibhaga(words)))

\* PadaVibhaga.__len__
PadaVibhaga_len(self) == Len(self.words)


(***************************************************************************)
(* models/sutras/classification.py                                         *)
(***************************************************************************)

\* an Optional value: None, or the value it holds
None == <<>>
Some(v) == <<v>>

\* the members of the SutraType enum: name and value
SutraTypeMembers ==
    { <<"SANJNA", <<"S">>>>, <<"PARIBHASHA", <<"P">>>>, <<"VIDHI", <<"V">>>>,
      <<"ATIDESHA", <<"A", "T">>>>, <<"ADHIKARA", <<"A", "D">>>> }

\* SutraType(value): the member with that value, ValueError when none has it
SutraType(value) ==
    IF \E m \in SutraTypeMembers : m[2] = value
    THEN Ok((CHOOSE m \in SutraTypeMembers : m[2] = value)[1])
    ELSE Raise("ValueError")

\* SutraTypeClassification(sutra_type, explanation)
SutraTypeClassification(sutra_type, explanation) ==
    [sutra_type |-> sutra_type, explanation |-> explanation]

\* the explanation of an entry: the trimmed second component, None when
\* there is no second component or it is blank
Explanation(components) ==
    IF Len(components) > 1 /\ Strip(components[2]) # <<>>
    THEN Some(Strip(components[2]))
    ELSE None

\* the try block around SutraType(type_id) and the append: `except
\* ValueError` skips the entry
TryClassify(r, explanation) ==
    IF r.raised = "none"
    THEN Ok(<<SutraTypeClassification(r.val, explanation)>>)
    ELSE IF r.raised = "ValueError" THEN Ok(<<>>) ELSE r

\* one loop iteration from `components = part.split("$")` on
ClassifyComponents_NeedsExplanation(components) ==
    IF Len(components) >= 1 /\ components[1] # <<>>
          /\ Explanation(components) # None
    THEN TryClassify(SutraType(Strip(components[1])), Explanation(components))
    ELSE Ok(<<>>)

ClassifyComponents(components) ==
    IF Len(components) >= 1 /\ components[1] # <<>>
    THEN TryClassify(SutraType(Strip(components[1])), Explanation(components))
    ELSE Ok(<<>>)

\* one iteration of `for part in parts`: the classifications it appends
ClassifyPart(part) ==
    IF Strip(part) = <<>> THEN Ok(<<>>)
    ELSE ClassifyComponents(Split(part, <<"$">>))

\* the loop over the parts from the i-th on
RECURSIVE ClassifyParts(_, _, _)
ClassifyParts(parts, i, classifications) ==
    IF i > Len(parts) THEN Ok(classifications)
    ELSE Then(ClassifyPart(parts[i]), LAMBDA new :
              ClassifyParts(parts, i + 1, classifications \o new))

\* SutraTypeInfo(classifications)
SutraTypeInfo(classifications) == [classifications |-> classifications]

\* SutraTypeInfo.from_string(type_string)
SutraTypeInfo_from_string(type_string) ==
    IF type_string = <<>> \/ Strip(type_string) = <<>>
    THEN Ok(SutraTypeInfo(<<>>))
    ELSE Then(ClassifyParts(Split(type_string, <<"#", "#">>), 1, <<>>),
              LAMBDA classifications : Ok(SutraTypeInfo(classifications)))

\* SutraTypeInfo.types
types(self) ==
    [i \in 1..Len(self.classifications) |-> self.classifications[i].sutra_type]


(***************************************************************************)
(* models/sutras/text_models.py, models/sutras/core.py                     *)
(***************************************************************************)

\* SutraText(sanskrit, english)
SutraText(sanskrit, english) == [sanskrit |-> sanskrit, english |-> english]

\* SutraReferences(skn, lskn, mskn, sskn, plskn, lpn, sk_chapter, lsk_chapter)
SutraReferences(skn, lskn, mskn, sskn, plskn, lpn, sk_chapter, lsk_chapter) ==
    [skn |-> skn, lskn |-> lskn, mskn |-> mskn, sskn |-> sskn,
     plskn |-> plskn, lpn |-> lpn, sk_chapter |-> sk_chapter,
     lsk_chapter |-> lsk_chapter]

\* Sutra(identifier, text, references, pada_vibhaga, sutra_type_info,
\* backlinks, ss); pada_vibhaga is Optional
Sutra(identifier, text, references, pada_vibhaga, sutra_type_info, backlinks, ss) ==
    [identifier |-> identifier, text |-> text, references |-> references,
     pada_vibhaga |-> pada_vibhaga, sutra_type_info |-> sutra_type_info,
     backlinks |-> backlinks, ss |-> ss]

\* Sutra.reference
Sutra_reference(self) == reference(self.identifier)

\* SutraCollection(name, sutras)
SutraCollection(name, sutras) == [name |-> name, sutras |-> sutras]

\* SutraReference.reference_string
reference_string(self) == reference(self.sutra_id)

\* `for sutra in self.sutras: if sutra.reference == reference: return sutra`
\* from the i-th sutra on, then `return None`
RECURSIVE FirstWithReference(_, _, _)
FirstWithReference(sutras, i, ref) ==
    IF i > Len(sutras) THEN None
    ELSE IF Sutra_reference(sutras[i]) = ref THEN Some(sutras[i])
    ELSE FirstWithReference(sutras, i + 1, ref)

RECURSIVE LastWithReference(_, _, _)
LastWithReference(sutras, i, ref) ==
    IF i < 1 THEN None
    ELSE IF Sutra_reference(sutras[i]) = ref THEN Some(sutras[i])
    ELSE LastWithReference(sutras, i - 1, ref)

\* SutraCollection.get_by_reference(reference): the argument is
\* [type, value], a str or a SutraReference
get_by_reference_LastMatch(self, ref) ==
    Ok(LastWithReference(self.sutras, Len(self.sutras),
                         IF ref.type = "SutraReference"
                         THEN reference_string(ref.value) ELSE ref.value))

get_by_reference(self, ref) ==
    Ok(FirstWithReference(self.sutras, 1,
                          IF ref.type = "SutraReference"
                          THEN reference_string(ref.value) ELSE ref.value))


\* str.lower() on the letters that the texts are written with; the other
\* characters have no case
UpperLetters == <<"A", "B", "C", "V", "W">>
LowerLetters == <<"a", "b", "c", "v", "w">>

LowerChar(c) ==
    IF \E k \in 1..Len(UpperLetters) : UpperLetters[k] = c
    THEN LowerLetters[CHOOSE k \in 1..Len(UpperLetters) : UpperLetters[k] = c]
    ELSE c

Lower(s) == [k \in 1..Len(s) |-> LowerChar(s[k])]

\* `text in field_text` on two strings
In(text, field_text) ==
    \E k \in 0..(Len(field_text) - Len(text)) :
        SubSeq(field_text, k + 1, k + Len(text)) = text

\* the loop over search_fields of one sutra: whether the sutra is appended
FieldMatches(text, field, case_sensitive) ==
    In(text, IF case_sensitive THEN field ELSE Lower(field))

SutraMatches_SanskritOnly(sutra, text, case_sensitive) ==
    FieldMatches(text, sutra.text.sanskrit, case_sensitive)

SutraMatches(sutra, text, case_sensitive) ==
    \/ FieldMatches(text, sutra.text.sanskrit, case_sensitive)
    \/ FieldMatches(text, sutra.text.english, case_sensitive)
    \/ FieldMatches(text, sutra.ss, case_sensitive)

\* the loop over self.sutras from the i-th on
RECURSIVE SearchFrom(_, _, _, _, _)
SearchFrom(sutras, i, text, case_sensitive, results) ==
    IF i > Len(sutras) THEN results
    ELSE SearchFrom(sutras, i + 1, text, case_sensitive,
                    IF SutraMatches(sutras[i], text, case_sensitive)
                    THEN Append(results, sutras[i]) ELSE results)

\* SutraCollection.search_text(text, case_sensitive)
search_text(self, text, case_sensitive) ==
    Ok(SearchFrom(self.sutras, 1,
                  IF case_sensitive THEN text ELSE Lower(text),
                  case_sensitive, <<>>))


\* the __eq__ a dataclass generates when the class defines none: the
\* tuples of all fields are compared
Sutra_eq_AllFields(self, o) ==
    /\ SutraIdentifier_eq(self.identifier, o.identifier)
    /\ [self EXCEPT !.identifier = 0] = [o EXCEPT !.identifier = 0]

\* Sutra.__eq__, __lt__, __le__, __gt__, __ge__ and __hash__ on two sutras
Sutra_eq(self, o) == SutraIdentifier_eq(self.identifier, o.identifier)

Sutra_lt(self, o) == SutraIdentifier_lt(self.identifier, o.identifier)

Sutra_le(self, o) == SutraIdentifier_le(self.identifier, o.identifier)

Sutra_gt(self, o) == SutraIdentifier_gt(self.identifier, o.identifier)

Sutra_ge(self, o) == SutraIdentifier_ge(self.identifier, o.identifier)

Sutra_hash(self) == SutraIdentifier_hash(self.identifier)


\* get_by_pada without the test of the adhyaya
get_by_pada_PadaOnly(self, adhyaya, pada) ==
    Ok(SelectSeq(self.sutras, LAMBDA sutra : sutra.identifier.pada = pada))

\* SutraCollection.get_by_adhyaya: the list comprehension over self.sutras
get_by_adhyaya(self, adhyaya) ==
    Ok(SelectSeq(self.sutras,
                 LAMBDA sutra : sutra.identifier.adhyaya = adhyaya))

\* SutraCollection.get_by_pada
get_by_pada(self, adhyaya, pada) ==
    Ok(SelectSeq(self.sutras,
                 LAMBDA sutra : /\ sutra.identifier.adhyaya = adhyaya
                                /\ sutra.identifier.pada = pada))


\* len(collection)
SutraCollection_len(self) == Ok(Len(self.sutras))

\* iter(collection): the sutras the iterator yields
SutraCollection_iter(self) == Ok(self.sutras)

\* collection[index]: list indexing, negative indexes count from the end
SutraCollection_getitem(self, index) ==
    IF 0 <= index /\ index < Len(self.sutras) THEN Ok(self.sutras[index + 1])
    ELSE IF -Len(self.sutras) <= index /\ index < 0
    THEN Ok(self.sutras[Len(self.sutras) + index + 1])
    ELSE Raise("IndexError")

\* sorted() on a list of sutras: a stable sort by Sutra.__lt__, here by
\* insertion of each sutra after the sutras that are not greater
RECURSIVE InsertSorted(_, _)
InsertSorted(sorted, sutra) ==
    IF sorted = <<>> THEN <<sutra>>
    ELSE IF Sutra_lt(sutra, sorted[Len(sorted)])
    THEN Append(InsertSorted(SubSeq(sorted, 1, Len(sorted) - 1), sutra),
                sorted[Len(sorted)])
    ELSE Append(sorted, sutra)

RECURSIVE Sorted(_)
Sorted(sutras) ==
    IF sutras = <<>> THEN <<>>
    ELSE InsertSorted(Sorted(SubSeq(sutras, 1, Len(sutras) - 1)),
                      sutras[Len(sutras)])

\* get_sorted as `self.sutras.sort(); return self.sutras`
get_sorted_InPlace(self) ==
    [self |-> [self EXCEPT !.sutras = Sorted(self.sutras)],
     result |-> Ok(Sorted(self.sutras)), same_list |-> TRUE]

\* SutraCollection.get_sorted: `return sorted(self.sutras)`; self is the
\* collection after the call, same_list whether the list returned is the
\* list object of the collection
get_sorted(self) ==
    [self |-> self, result |-> Ok(Sorted(self.sutras)), same_list |-> FALSE]


(***************************************************************************)
(* readers/ashtadhyayi_readers.py                                          *)
(*                                                                         *)
(* A file is [exists, valid_json, root]; the root value of a valid file is *)
(* [type, keys, name, data_type, data]; an element of data is              *)
(* [type, fields], fields being the dict from field names to strings.      *)
(* An exception carries what its message is formatted from:                *)
(* [text, index, fields, cause].                                           *)
(***************************************************************************)

\* an exception of class e with message msg
RaiseMsg(e, msg) == [raised |-> e, val |-> msg]

Message(text, index, fields, cause) ==
    [text |-> text, index |-> index, fields |-> fields, cause |-> cause]

required_fields ==
    << "i", "a", "p", "n", "s", "e", "skn", "lskn", "mskn", "sskn", "plskn",
       "lpn", "pc", "sk_chapter", "lsk_chapter", "type", "an", "ad", "ss" >>

\* [field for field in required_fields if field not in sutra_data]
missing_fields(sutra_data) ==
    SelectSeq(required_fields, LAMBDA field : field \notin DOMAIN sutra_data)

\* int(sutra_data[field]): the ValueError of int() quotes the literal
IntError(r, value) ==
    IF r.raised = "none" THEN r
    ELSE RaiseMsg(r.raised,
                  Message("invalid literal for int() with base 10",
                          None, <<>>, Some(value)))

int_field(value) == IntError(PyInt(value), value)

\* SutraIdentifier(...) within read_sutras: the ValueError of __post_init__
\* names the attribute and quotes its value
IdentifierError(r, adhyaya, pada, number) ==
    IF r.raised = "none" THEN r
    ELSE RaiseMsg(r.raised,
             IF ~(1 <= adhyaya /\ adhyaya <= 8)
             THEN Message("Adhyaya must be between 1 and 8, got",
                          None, <<>>, Some(adhyaya))
             ELSE IF ~(1 <= pada /\ pada <= 4)
             THEN Message("Pada must be between 1 and 4, got",
                          None, <<>>, Some(pada))
             ELSE Message("Sutra number must be positive, got",
                          None, <<>>, Some(number)))

\* the identifier numbered by the position of the record in the file
new_identifier_ByPosition(oid, adhyaya, pada, number) ==
    IdentifierError(SutraIdentifier_init(oid, adhyaya, pada, oid + 1),
                    adhyaya, pada, oid + 1)

new_identifier(oid, adhyaya, pada, number) ==
    IdentifierError(SutraIdentifier_init(oid, adhyaya, pada, number),
                    adhyaya, pada, number)

\* safe_int(value): int(value) when value is non-empty and non-blank, the
\* default 0 otherwise and when int() raises ValueError or TypeError
SafeIntResult(r) ==
    IF r.raised = "none" THEN r
    ELSE IF r.raised \in {"ValueError", "TypeError"} THEN Ok(0) ELSE r

safe_int_NoDefault(value) ==
    IF value # <<>> /\ Strip(value) # <<>> THEN PyInt(value) ELSE Ok(0)

safe_int(value) ==
    IF value # <<>> /\ Strip(value) # <<>> THEN SafeIntResult(PyInt(value))
    ELSE Ok(0)

\* references = SutraReferences(skn=safe_int(sutra_data["skn"]), ...)
new_references(sutra_data) ==
    Then(safe_int(sutra_data["skn"]), LAMBDA skn :
    Then(safe_int(sutra_data["lskn"]), LAMBDA lskn :
    Then(safe_int(sutra_data["mskn"]), LAMBDA mskn :
    Then(safe_int(sutra_data["sskn"]), LAMBDA sskn :
    Then(safe_int(sutra_data["plskn"]), LAMBDA plskn :
    Then(safe_int(sutra_data["lpn"]), LAMBDA lpn :
    Then(safe_int(sutra_data["sk_chapter"]), LAMBDA sk_chapter :
    Then(safe_int(sutra_data["lsk_chapter"]), LAMBDA lsk_chapter :
    Ok(SutraReferences(skn, lskn, mskn, sskn, plskn, lpn, sk_chapter,
                       lsk_chapter))))))))))

\* the try block around PadaVibhaga.from_string: `except (ValueError,
\* IndexError)` leaves pada_vibhaga None
TryVibhaga(r) ==
    IF r.raised = "none" THEN Ok(Some(r.val))
    ELSE IF r.raised \in {"ValueError", "IndexError"} THEN Ok(None) ELSE r

\* pada_vibhaga = None; if sutra_data["pc"]: ...
new_pada_vibhaga_BlankIsNone(pc_value) ==
    IF Strip(pc_value) # <<>> THEN TryVibhaga(PadaVibhaga_from_string(pc_value))
    ELSE Ok(None)

new_pada_vibhaga(pc_value) ==
    IF pc_value # <<>> THEN TryVibhaga(PadaVibhaga_from_string(pc_value))
    ELSE Ok(None)

\* the body of the try block of one record: the Sutra it builds
new_sutra(sutra_data, i) ==
    Then(int_field(sutra_data["a"]), LAMBDA adhyaya :
    Then(int_field(sutra_data["p"]), LAMBDA pada :
    Then(int_field(sutra_data["n"]), LAMBDA number :
    Then(new_identifier(i, adhyaya, pada, number), LAMBDA identifier :
    Then(new_references(sutra_data), LAMBDA references :
    Then(new_pada_vibhaga(sutra_data["pc"]), LAMBDA pada_vibhaga :
    Then(SutraTypeInfo_from_string(sutra_data["type"]), LAMBDA sutra_type_info :
    Then(Backlinks_from_strings(sutra_data["an"], sutra_data["ad"]),
         LAMBDA backlinks :
    Ok(Sutra(identifier, SutraText(sutra_data["s"], sutra_data["e"]),
             references, pada_vibhaga, sutra_type_info, backlinks,
             sutra_data["ss"]))))))))))

\* `except Exception as e: raise ValueError(f"... at index {i}: {e}")`
WrapError_NoIndex(r, i) ==
    IF r.raised = "none" THEN r
    ELSE RaiseMsg("ValueError",
                  Message("Error creating Sutra object", None, <<>>, Some(r)))

WrapError(r, i) ==
    IF r.raised = "none" THEN r
    ELSE RaiseMsg("ValueError",
                  Message("Error creating Sutra object at index",
                          Some(i), <<>>, Some(r)))

\* one iteration of `for i, sutra_data in enumerate(data["data"])` on a
\* dict whose missing fields are given: the Sutra it appends
read_fields_ValueError(sutra_data, i, missing) ==
    IF missing # <<>>
    THEN RaiseMsg("ValueError",
                  Message("Missing required fields in sutra at index",
                          Some(i), missing, None))
    ELSE WrapError(new_sutra(sutra_data, i), i)

read_fields(sutra_data, i, missing) ==
    IF missing # <<>>
    THEN RaiseMsg("KeyError",
                  Message("Missing required fields in sutra at index",
                          Some(i), missing, None))
    ELSE WrapError(new_sutra(sutra_data, i), i)

\* one iteration of the loop
read_record(element, i) ==
    IF element.type # "dict"
    THEN RaiseMsg("ValueError",
                  Message("Expected dict for sutra at index",
                          Some(i), <<>>, Some(element.type)))
    ELSE read_fields(element.fields, i, missing_fields(element.fields))

\* the loop from index i on, sutras holding what was appended before
RECURSIVE read_records_SkipBad(_, _, _)
read_records_SkipBad(data, i, sutras) ==
    IF i >= Len(data) THEN Ok(sutras)
    ELSE IF read_record(data[i + 1], i).raised # "none"
    THEN read_records_SkipBad(data, i + 1, sutras)
    ELSE read_records_SkipBad(data, i + 1,
                              Append(sutras, read_record(data[i + 1], i).val))

RECURSIVE read_records_Unique(_, _, _)
read_records_Unique(data, i, sutras) ==
    IF i >= Len(data) THEN Ok(sutras)
    ELSE Then(read_record(data[i + 1], i), LAMBDA sutra :
              read_records_Unique(data, i + 1,
                  IF \E k \in 1..Len(sutras) :
                         SutraIdentifier_eq(sutras[k].identifier, sutra.identifier)
                  THEN sutras ELSE Append(sutras, sutra)))

RECURSIVE read_records(_, _, _)
read_records(data, i, sutras) ==
    IF i >= Len(data) THEN Ok(sutras)
    ELSE Then(read_record(data[i + 1], i), LAMBDA sutra :
              read_records(data, i + 1, Append(sutras, sutra)))

\* the checks of the decoded root value, then the loop
read_root(root) ==
    IF root.type # "dict"
    THEN RaiseMsg("ValueError",
                  Message("Expected dict at root level, got",
                          None, <<>>, Some(root.type)))
    ELSE IF "name" \notin root.keys
    THEN RaiseMsg("KeyError",
                  Message("Missing 'name' field in data", None, <<>>, None))
    ELSE IF "data" \notin root.keys
    THEN RaiseMsg("KeyError",
                  Message("Missing 'data' field in data", None, <<>>, None))
    ELSE IF root.data_type # "list"
    THEN RaiseMsg("ValueError",
                  Message("Expected list for 'data' field, got",
                          None, <<>>, Some(root.data_type)))
    ELSE Then(read_records(root.data, 0, <<>>), LAMBDA sutras :
              Ok(SutraCollection(root.name, sutras)))

\* read_sutras with json.load before the test of the path
read_sutras_JsonFirst(file) ==
    IF ~file.valid_json
    THEN RaiseMsg("ValueError",
                  Message("Invalid JSON in file", None, <<>>, None))
    ELSE IF ~file.exists
    THEN RaiseMsg("FileNotFoundError",
                  Message("Sutras data file not found", None, <<>>, None))
    ELSE read_root(file.root)

\* read_sutras(file_path)
read_sutras(file) ==
    IF ~file.exists
    THEN RaiseMsg("FileNotFoundError",
                  Message("Sutras data file not found", None, <<>>, None))
    ELSE IF ~file.valid_json
    THEN RaiseMsg("ValueError",
                  Message("Invalid JSON in file", None, <<>>, None))
    ELSE read_root(file.root)


(***************************************************************************)
(* Inputs of the calls, and the bounds on them.                            *)
(***************************************************************************)

\* most '##'-separated entries of a generated text
MaxEntries == 3
\* longest raw text generated character by character
MaxLen == 4
\* most '$'-separated reference parts after the fragment of a generated entry
MaxParts == 5
\* largest sutra number passed to the SutraIdentifier constructor
MaxNumber == 12

\* the sequences over S of length at most n
SeqsUpTo(S, n) == UNION {[1..k -> S] : k \in 0..n}

\* sep.join(ss)
RECURSIVE Join(_, _)
Join(ss, sep) ==
    IF ss = <<>> THEN <<>>
    ELSE IF Len(ss) = 1 THEN ss[1]
    ELSE ss[1] \o sep \o Join(Tail(ss), sep)

\* the texts the specification and the tests name
ExFused ==
    <<"f", "r", "a", "g", "m", "e", "n", "t", "$", "1", "1", "0", "0", "1">>
ExParts ==
    <<"f", "r", "a", "g", "m", "e", "n", "t", "$", "1", "$", "4", "$", "2",
      "3">>
ExNoDollar ==
    <<"t", "e", "x", "t", "1", "1", "1">>
ExEmptyRef ==
    <<"t", "e", "x", "t", "$">>
ExShortRef ==
    <<"t", "e", "x", "t", "$", "1", "1">>
ExMixed ==
    <<"v", "a", "l", "i", "d", "$", "1", "1", "1", "#", "#", "i", "n", "v",
      "a", "l", "i", "d", "#", "#", "a", "n", "o", "t", "h", "e", "r", "$",
      "2", "2", "2">>
ExMixedLong ==
    <<"v", "a", "l", "i", "d", "$", "1", "1", "0", "0", "1", "#", "#", "i",
      "n", "v", "a", "l", "i", "d", "#", "#", "a", "n", "o", "t", "h", "e",
      "r", "$", "2", "2", "0", "0", "2">>
ExSpaces ==
    <<" ", " ", " ">>
ExLetters ==
    <<"f", "r", "a", "g", "m", "e", "n", "t", "$", "a", "b", "c">>
ExLetterParts ==
    <<"f", "r", "a", "g", "m", "e", "n", "t", "$", "a", "$", "b", "$", "c">>

Examples ==
    {ExFused,
     ExParts,
     ExNoDollar,
     ExEmptyRef,
     ExShortRef,
     ExMixed,
     ExMixedLong,
     ExSpaces,
     ExLetters,
     ExLetterParts}

Fragments == {<<"a">>, <<" ", "b", " ">>}
Pads == {<<>>, <<" ">>}

\* fragment$CQO entries: every combination of boundary values of the chapter
\* digit, the quarter digit and the ordinal run
FusedChapter == {"0", "1", "8", "9", "x", "dev1"}
FusedPada == {"0", "1", "4", "5", "x"}
FusedRest ==
    {<<"0", "0", "1">>, <<"0", "0", "0">>, <<"2", "3">>, <<"1", "2", "3">>,
     <<"-", "0", "1">>, <<"0", "x", "1">>, <<" ", "0", "1">>, <<"1", "_", "0">>,
     <<"+", "0", "7">>}

FusedEntries ==
    {f \o <<"$">> \o p \o <<c, q>> \o r \o p :
        f \in Fragments, p \in Pads, c \in FusedChapter, q \in FusedPada,
        r \in FusedRest}

\* fragment$chapter$quarter$ordinal entries over boundary values
NumPool ==
    {<<"1">>, <<"4">>, <<"8">>, <<"5">>, <<"9">>, <<"0">>, <<"2", "3">>,
     <<" ", "2", " ">>, <<"x">>, <<>>, <<"-", "1">>}

PartsEntries3 ==
    {<<"a", "$">> \o x \o <<"$">> \o y \o <<"$">> \o z :
        x \in NumPool, y \in NumPool, z \in NumPool}

\* entries of every part count up to MaxParts reference parts
SmallPool == {<<"1">>, <<"1", "1", "0", "0", "1">>, <<"x">>}

PartsEntriesN ==
    {Join(<<<<"a">>>> \o ps, <<"$">>) : ps \in SeqsUpTo(SmallPool, MaxParts)}

\* texts of several entries, empty, undecodable and repeated ones among them
EntryPool ==
    {<<>>, <<"a">>, <<"a", "$">>, <<"a", "$", "1", "1", "0", "0", "1">>,
     <<" ", "b", " ", "$", " ", "2", "4", "0", "1", "2">>,
     <<"a", "$", "1", "$", "4", "$", "2", "3">>,
     <<"c", "$", "8", "$", "1", "$", " ", "7">>,
     <<"c", "$", "1", "1", "1">>}

MultiTexts == {Join(es, <<"#", "#">>) : es \in SeqsUpTo(EntryPool, MaxEntries)}

\* every short text over the separators, a blank, a letter and a digit
RawTexts == SeqsUpTo({"#", "$", " ", "a", "1"}, MaxLen)

Texts ==
    Examples \cup FusedEntries \cup PartsEntries3 \cup PartsEntriesN
        \cup MultiTexts \cup RawTexts

Kinds == {ANUVRITTI, ADHIKARA, NotACarryoverType}

(***************************************************************************)
(* SutraCarryover.from_string called on every text under every kind, and   *)
(* then on the same text under another kind, or Backlinks.from_strings     *)
(* called on the text.                                                     *)
(***************************************************************************)

InitCarryover ==
    /\ pc = "from_string"
    /\ args \in [carryover_text : Texts, carryover_type : Kinds]
    /\ ret = Pending
    /\ other = Pending
    /\ cmp = <<>>

FromString ==
    /\ pc = "from_string"
    /\ ret' = from_string(args.carryover_text, args.carryover_type)
    /\ pc' = "done"
    /\ UNCHANGED <<args, other, cmp>>

\* the same text is parsed again under the other of the two kinds
FromStringOtherKind ==
    /\ pc = "done"
    /\ ret.raised = "none"
    /\ \E kind \in {ANUVRITTI, ADHIKARA} \ {args.carryover_type} :
           other' = from_string(args.carryover_text, kind)
    /\ pc' = "both"
    /\ UNCHANGED <<args, ret, cmp>>

\* Backlinks.from_strings with the text in both slots, and its properties
BacklinksOfText ==
    /\ pc = "done"
    /\ cmp' = [anuvritti |->
                   Backlinks_from_strings(args.carryover_text,
                                          args.carryover_text).val.anuvritti,
               adhikara |->
                   Backlinks_from_strings(args.carryover_text,
                                          args.carryover_text).val.adhikara,
               has_anuvritti |->
                   has_anuvritti(Backlinks_from_strings(args.carryover_text,
                                                        args.carryover_text).val),
               has_adhikara |->
                   has_adhikara(Backlinks_from_strings(args.carryover_text,
                                                       args.carryover_text).val)]
    /\ pc' = "backlinks"
    /\ UNCHANGED <<args, ret, other>>

NextCarryover == FromString \/ FromStringOtherKind \/ BacklinksOfText

SpecCarryover == InitCarryover /\ [][NextCarryover]_vars

(***************************************************************************)
(* SutraIdentifier: one object built from arbitrary integers, a second      *)
(* one built next to it, then every comparison method applied to the pair. *)
(***************************************************************************)

IdNumbers == (-1..MaxNumber) \cup {127}
IdArgs == [adhyaya : -1..10, pada : -1..6, number : IdNumbers]
OtherArgs == [adhyaya : {1, 2, 8}, pada : {1, 4}, number : {1, 2, 11, 127}]

InitIdentifier ==
    /\ pc = "SutraIdentifier"
    /\ args \in IdArgs
    /\ ret = Pending
    /\ other = Pending
    /\ cmp = <<>>

\* SutraIdentifier(adhyaya, pada, number)
IdentNew ==
    /\ pc = "SutraIdentifier"
    /\ ret' = SutraIdentifier_init(1, args.adhyaya, args.pada, args.number)
    /\ pc' = IF ret'.raised = "none" THEN "other" ELSE "done"
    /\ UNCHANGED <<args, other, cmp>>

\* a second SutraIdentifier, of the same or of other integers
OtherNew ==
    /\ pc = "other"
    /\ \E o \in OtherArgs \cup {args} :
           other' = SutraIdentifier_init(2, o.adhyaya, o.pada, o.number)
    /\ pc' = IF other'.raised = "none" THEN "compare" ELSE "done"
    /\ UNCHANGED <<args, ret, cmp>>

\* a == b, a < b, a <= b, a > b, a >= b, hash(a), hash(b), a.reference,
\* b.reference
Compare ==
    /\ pc = "compare"
    /\ cmp' = [eq |-> SutraIdentifier_eq(ret.val, other.val),
               lt |-> SutraIdentifier_lt(ret.val, other.val),
               le |-> SutraIdentifier_le(ret.val, other.val),
               gt |-> SutraIdentifier_gt(ret.val, other.val),
               ge |-> SutraIdentifier_ge(ret.val, other.val),
               hash_self |-> SutraIdentifier_hash(ret.val),
               hash_other |-> SutraIdentifier_hash(other.val),
               reference_self |-> reference(ret.val),
               reference_other |-> reference(other.val)]
    /\ pc' = "done"
    /\ UNCHANGED <<args, ret, other>>

NextIdentifier == IdentNew \/ OtherNew \/ Compare

SpecIdentifier == InitIdentifier /\ [][NextIdentifier]_vars

(***************************************************************************)
(* Backlinks: built from two carryover objects of any kinds, or from two   *)
(* raw texts.                                                              *)
(***************************************************************************)

BacklinkTexts ==
    {<<>>, ExSpaces, ExFused, ExParts, ExNoDollar, ExShortRef, ExMixedLong,
     ExLetterParts}

InitBacklinks ==
    /\ pc = "carryovers"
    /\ args \in [anuvritti_text : BacklinkTexts, adhikara_text : BacklinkTexts,
                  anuvritti_type : Kinds, adhikara_type : Kinds]
    /\ ret = Pending
    /\ other = Pending
    /\ cmp = <<>>

\* the caller builds two carryover objects, of any kinds
MakeCarryovers ==
    /\ pc = "carryovers"
    /\ other' =
           Then(from_string(args.anuvritti_text, args.anuvritti_type), LAMBDA a :
           Then(from_string(args.adhikara_text, args.adhikara_type), LAMBDA b :
           Ok([anuvritti |-> a, adhikara |-> b])))
    /\ pc' = "Backlinks"
    /\ UNCHANGED <<args, ret, cmp>>

\* Backlinks(anuvritti=..., adhikara=...) on the two objects
BacklinksNew ==
    /\ pc = "Backlinks"
    /\ ret' = Backlinks_init(other.val.anuvritti, other.val.adhikara)
    /\ pc' = "done"
    /\ UNCHANGED <<args, other, cmp>>

\* Backlinks.from_strings(anuvritti_text, adhikara_text) on the two texts
BacklinksFromStrings ==
    /\ pc = "carryovers"
    /\ ret' = Backlinks_from_strings(args.anuvritti_text, args.adhikara_text)
    /\ pc' = "done"
    /\ UNCHANGED <<args, other, cmp>>

\* the properties of a constructed Backlinks are read
BacklinksProperties ==
    /\ pc = "done"
    /\ ret.raised = "none"
    /\ cmp' = [has_anuvritti |-> has_anuvritti(ret.val),
               has_adhikara |-> has_adhikara(ret.val),
               has_any_carryover |-> has_any_carryover(ret.val),
               total_references |-> total_references(ret.val)]
    /\ pc' = "read"
    /\ UNCHANGED <<args, ret, other>>

NextBacklinks ==
    MakeCarryovers \/ BacklinksNew \/ BacklinksFromStrings \/ BacklinksProperties

SpecBacklinks == InitBacklinks /\ [][NextBacklinks]_vars

(***************************************************************************)
(* PadaAnalysis: one construction, then its is_avyaya property.            *)
(***************************************************************************)

\* the largest vibhakti and vachana arguments tried; the smallest are -2
MaxVibhaktiArg == 10
MaxVachanaArg == 5

PadaWords == {<<"r", "a", "m">>, <<>>}
PadaGenders == {<<"S">>, <<"F">>}

InitPada ==
    /\ pc = "PadaAnalysis"
    /\ args \in [word : PadaWords, gender : PadaGenders,
                  vibhakti : (-2)..MaxVibhaktiArg,
                  vachana : (-2)..MaxVachanaArg]
    /\ ret = Pending
    /\ other = Pending
    /\ cmp = <<>>

\* PadaAnalysis(word=..., gender=..., vibhakti=..., vachana=...)
PadaAnalysisNew ==
    /\ pc = "PadaAnalysis"
    /\ ret' = PadaAnalysis_init(args.word, args.gender,
                                args.vibhakti, args.vachana)
    /\ pc' = "done"
    /\ UNCHANGED <<args, other, cmp>>

\* analysis.is_avyaya on a constructed object
PadaAnalysisProperties ==
    /\ pc = "done"
    /\ ret.raised = "none"
    /\ cmp' = [is_avyaya |-> is_avyaya(ret.val)]
    /\ pc' = "read"
    /\ UNCHANGED <<args, ret, other>>

NextPada == PadaAnalysisNew \/ PadaAnalysisProperties

SpecPada == InitPada /\ [][NextPada]_vars


(***************************************************************************)
(* PadaVibhaga.from_string: one call on a pada_vibhaga string.             *)
(***************************************************************************)

\* the largest number of "##"-separated entries of a generated string
MaxPadaEntries == 3

\* the third and fourth components: numbers in and out of range, padded,
\* signed, a Devanagari digit, letters, nothing
VibhaktiStrings ==
    { <<"0">>, <<"1">>, <<"8">>, <<"9">>, <<"-", "1">>, <<" ", "2", " ">>,
      <<"+", "3">>, <<"dev1">>, <<"a">>, <<>> }
VachanaStrings ==
    { <<"0">>, <<"1">>, <<"3">>, <<"4">>, <<" ", "2">>, <<"x">>, <<>> }

\* what follows the fourth component
PadaTails == { <<>>, <<"$">>, <<"$", "z", "$">> }

PadaFull ==
    { w \o <<"$">> \o g \o <<"$">> \o v \o <<"$">> \o n \o t :
        w \in { <<"r">>, <<>> }, g \in { <<"S">>, <<" ", "F">> },
        v \in VibhaktiStrings, n \in VachanaStrings, t \in PadaTails }

\* entries of fewer than four components
PadaShort ==
    { <<"r">>, <<"r", "$", "S">>, <<"r", "$", "S", "$", "1">>,
      <<"r", "$", "S", "$", "1", "$">>, <<"$", "$", "$">>, <<" ">>, <<>> }

\* the entries that longer strings are joined from
PadaEntriesN ==
    { <<"r", "$", "S", "$", "1", "$", "1", "$">>,
      <<"g", "$", "A", "$", "0", "$", "0">>,
      <<"r", "$", "S", "$", "1">>,
      <<"r", "$", "S", "$", "a", "$", "1">>,
      <<"r", "$", "S", "$", "0", "$", "1">>,
      <<"m", "$", "N", "$", "8", "$", "3", "$", "z">>,
      <<" ">>, <<>> }

\* "r$S$1##g$A$0$0": the shape of the test's malformed string
ExPadaMalformed ==
    Join(<< <<"r", "$", "S", "$", "1">>,
            <<"g", "$", "A", "$", "0", "$", "0">> >>, <<"#", "#">>)

PadaStrings ==
    PadaFull \cup PadaShort
    \cup { Join(ss, <<"#", "#">>) : ss \in SeqsUpTo(PadaEntriesN, MaxPadaEntries) }

InitVibhaga ==
    /\ pc = "PadaVibhaga.from_string"
    /\ args \in [pc_string : PadaStrings]
    /\ ret = Pending
    /\ other = Pending
    /\ cmp = <<>>

\* PadaVibhaga.from_string(pc_string)
VibhagaFromString ==
    /\ pc = "PadaVibhaga.from_string"
    /\ ret' = PadaVibhaga_from_string(args.pc_string)
    /\ pc' = "done"
    /\ UNCHANGED <<args, other, cmp>>

\* len(vibhaga) on the returned object
VibhagaLen ==
    /\ pc = "done"
    /\ ret.raised = "none"
    /\ cmp' = [len |-> PadaVibhaga_len(ret.val)]
    /\ pc' = "read"
    /\ UNCHANGED <<args, ret, other>>

NextVibhaga == VibhagaFromString \/ VibhagaLen

SpecVibhaga == InitVibhaga /\ [][NextVibhaga]_vars


(***************************************************************************)
(* SutraTypeInfo.from_string: one call on a type string.                   *)
(***************************************************************************)

\* the largest number of "##"-separated entries of a generated type string
MaxTypeEntries == 3

\* first components: the five codes, unknown ones, padded, blank and empty
TypeCodes ==
    { <<"S">>, <<"P">>, <<"V">>, <<"A", "T">>, <<"A", "D">>, <<"Z", "Z">>,
      <<"A">>, <<"p">>, <<" ", "P">>, <<"A", "D", " ">>, <<" ">>, <<>> }

\* what follows the first component
TypeTails ==
    { <<>>, <<"$">>, <<"$", "$">>, <<"$", "x", "$">>, <<"$", "x">>,
      <<"$", " ", "$">>, <<"$", " ", "x", " ", "$">>, <<"$", "$", "x">> }

TypeEntries == { c \o t : c \in TypeCodes, t \in TypeTails }

\* the entries that longer strings are joined from
TypeEntriesN ==
    { <<"P", "$", "x", "$">>, <<"A", "T", "$", "y", "$">>, <<"V", "$">>,
      <<"Z", "Z", "$", "x", "$">>, <<"S", "$", "$">>, <<" ">>, <<>>,
      <<"$", "$">>, <<"#", "P", "$">> }

\* "P$x$##AT$y$" and "ZZ$x$##P$x$##V$": the shapes of the tests' strings
ExTypes == Join(<< <<"P", "$", "x", "$">>, <<"A", "T", "$", "y", "$">> >>,
                <<"#", "#">>)
ExTypesInvalid ==
    Join(<< <<"Z", "Z", "$", "x", "$">>, <<"P", "$", "x", "$">>,
            <<"V", "$">> >>, <<"#", "#">>)

TypeStrings ==
    TypeEntries
    \cup { Join(ss, <<"#", "#">>) : ss \in SeqsUpTo(TypeEntriesN, MaxTypeEntries) }
    \cup { ExTypes, ExTypesInvalid }

InitTypeInfo ==
    /\ pc = "SutraTypeInfo.from_string"
    /\ args \in [type_string : TypeStrings]
    /\ ret = Pending
    /\ other = Pending
    /\ cmp = <<>>

\* SutraTypeInfo.from_string(type_string)
TypeInfoFromString ==
    /\ pc = "SutraTypeInfo.from_string"
    /\ ret' = SutraTypeInfo_from_string(args.type_string)
    /\ pc' = "done"
    /\ UNCHANGED <<args, other, cmp>>

\* info.types on the returned object
TypeInfoTypes ==
    /\ pc = "done"
    /\ ret.raised = "none"
    /\ cmp' = [types |-> types(ret.val)]
    /\ pc' = "read"
    /\ UNCHANGED <<args, ret, other>>

NextTypeInfo == TypeInfoFromString \/ TypeInfoTypes

SpecTypeInfo == InitTypeInfo /\ [][NextTypeInfo]_vars


(***************************************************************************)
(* read_sutras: one call on a file.                                        *)
(***************************************************************************)

\* the largest number of records of a generated document
MaxRecords == 3

\* a record with all the required fields, well formed
BaseFields ==
    [i |-> <<"1", "1", "0", "0", "1">>, a |-> <<"1">>, p |-> <<"1">>,
     n |-> <<"1">>, s |-> <<"v">>, e |-> <<"V">>,
     skn |-> <<"1", "6">>, lskn |-> <<"3">>, mskn |-> <<>>, sskn |-> <<>>,
     plskn |-> <<>>, lpn |-> <<"0">>,
     pc |-> <<"r", "$", "S", "$", "1", "$", "1", "$">>,
     sk_chapter |-> <<"1">>, lsk_chapter |-> <<"1">>,
     type |-> <<"S", "$", "x", "$">>, an |-> <<>>, ad |-> <<>>,
     ss |-> <<"w">>]

Without(fields, names) == [f \in DOMAIN fields \ names |-> fields[f]]

DictOf(fields) == [type |-> "dict", fields |-> fields]

\* well-formed records of several identifiers
GoodRecords ==
    { DictOf([BaseFields EXCEPT !["a"] = a, !["n"] = n]) :
        a \in { <<"1">>, <<" ", "8", " ">> }, n \in { <<"1">>, <<"2">> } }

\* records whose a, p or n is not a number, or out of the identifier's range
BadIdentifierRecords ==
    { DictOf([BaseFields EXCEPT !["a"] = a]) :
        a \in { <<"x">>, <<>>, <<"9">>, <<"0">> } }
    \cup { DictOf([BaseFields EXCEPT !["p"] = p]) : p \in { <<"5">>, <<"q">> } }
    \cup { DictOf([BaseFields EXCEPT !["n"] = n]) : n \in { <<"0">>, <<"z">> } }

\* records lacking required fields
MissingSets == { {"i"}, {"a"}, {"ad"}, {"pc", "ss"}, {"lsk_chapter"} }
MissingRecords ==
    { DictOf(Without(BaseFields, m)) : m \in MissingSets }
    \cup { DictOf(Without([BaseFields EXCEPT !["a"] = <<"x">>], {"type"})) }

\* records with all the fields and a well-formed identifier whose
\* annotation and numeric fields hold any content
AnnotationRecords ==
    { DictOf([BaseFields EXCEPT !["type"] = t]) :
        t \in { <<>>, <<"Z", "Z", "$", "x", "$">>, ExTypesInvalid } }
    \cup { DictOf([BaseFields EXCEPT !["an"] = t]) :
             t \in { ExFused, ExNoDollar, ExLetters, ExSpaces } }
    \cup { DictOf([BaseFields EXCEPT !["ad"] = t]) :
             t \in { ExParts, ExLetterParts, ExFused } }
    \cup { DictOf([BaseFields EXCEPT !["pc"] = t]) :
             t \in { <<>>, <<" ">>, <<"r", "$", "S", "$", "0", "$", "1">>,
                     <<"r", "$", "S", "$", "1">>, <<"x">>, ExPadaMalformed } }
    \cup { DictOf([BaseFields EXCEPT !["skn"] = t, !["lsk_chapter"] = u]) :
             t \in { <<>>, <<" ">>, <<"a", "b", "c">>, <<"-", "3">>,
                     <<" ", "7", " ">>, <<"1", ".", "5">> },
             u \in { <<"2">>, <<"$">> } }

\* an element of data that is not a dict
NotADict == [type |-> "str", fields |-> <<>>]

Records ==
    GoodRecords \cup BadIdentifierRecords \cup MissingRecords
    \cup AnnotationRecords \cup {NotADict}

\* the records that documents of several records are made of
RecordsN ==
    { DictOf(BaseFields),
      DictOf([BaseFields EXCEPT !["n"] = <<"2">>]),
      DictOf([BaseFields EXCEPT !["a"] = <<"x">>]),
      DictOf([BaseFields EXCEPT !["p"] = <<"5">>]),
      DictOf(Without(BaseFields, {"ad"})),
      DictOf(Without(BaseFields, {"i", "a"})),
      DictOf([BaseFields EXCEPT !["pc"] = <<"x">>, !["skn"] = <<"x">>,
                                !["type"] = <<"Z">>, !["an"] = ExLetters]),
      DictOf([BaseFields EXCEPT !["pc"] = <<>>, !["a"] = <<"2">>]),
      NotADict }

RootOf(data) ==
    [type |-> "dict", keys |-> {"name", "data"}, name |-> <<"A">>,
     data_type |-> "list", data |-> data]

Documents ==
    { RootOf(<<r>>) : r \in Records }
    \cup { RootOf(data) : data \in SeqsUpTo(RecordsN, MaxRecords) }

\* roots of the wrong shape
BadRoots ==
    { [RootOf(<<>>) EXCEPT !.type = "list"],
      [RootOf(<<>>) EXCEPT !.keys = {"data"}],
      [RootOf(<<>>) EXCEPT !.keys = {"name"}],
      [RootOf(<<>>) EXCEPT !.keys = {}],
      [RootOf(<<>>) EXCEPT !.data_type = "dict"] }

Files ==
    { [exists |-> TRUE, valid_json |-> TRUE, root |-> d] :
        d \in Documents \cup BadRoots }
    \cup { [exists |-> FALSE, valid_json |-> TRUE, root |-> RootOf(<<>>)],
           [exists |-> TRUE, valid_json |-> FALSE, root |-> RootOf(<<>>)] }

InitReader ==
    /\ pc = "read_sutras"
    /\ args \in [file : Files]
    /\ ret = Pending
    /\ other = Pending
    /\ cmp = <<>>

\* read_sutras(file_path)
ReadSutras ==
    /\ pc = "read_sutras"
    /\ ret' = read_sutras(args.file)
    /\ pc' = "done"
    /\ UNCHANGED <<args, other, cmp>>

\* len(collection) on the returned collection
CollectionLen ==
    /\ pc = "done"
    /\ ret.raised = "none"
    /\ cmp' = [len |-> Len(ret.val.sutras)]
    /\ pc' = "read"
    /\ UNCHANGED <<args, ret, other>>

NextReader == ReadSutras \/ CollectionLen

SpecReader == InitReader /\ [][NextReader]_vars


(***************************************************************************)
(* SutraCollection: a constructed collection, then one query;              *)
(* get_by_reference leaves its result in ret, the other queries in cmp.    *)
(***************************************************************************)

\* the largest number of sutras of a generated collection
MaxSutras == 3

\* the identifiers and the texts of the sutras; two sutras may share an
\* identifier and differ in text
SutraTriples == { <<1, 1, 1>>, <<1, 1, 10>>, <<1, 2, 1>>, <<2, 1, 1>> }
SutraWords ==
    { << <<"a", "b">>, <<"A", "b">>, <<"c">> >>,
      << <<"c">>, <<"B", "A">>, <<"a", "b">> >> }

\* the sutra at position oid of a collection; word holds its sanskrit
\* text, its transliteration and its ss text, and the sutras of the two
\* words differ in every other field too
SutraAt(oid, triple, word) ==
    IF word[3] = <<"c">>
    THEN Sutra(SutraIdentifier_init(oid, triple[1], triple[2], triple[3]).val,
               SutraText(word[1], word[2]),
               SutraReferences(0, 0, 0, 0, 0, 0, 0, 0),
               None, SutraTypeInfo(<<>>),
               Backlinks_from_strings(<<>>, <<>>).val, word[3])
    ELSE Sutra(SutraIdentifier_init(oid, triple[1], triple[2], triple[3]).val,
               SutraText(word[1], word[2]),
               SutraReferences(16, 3, 0, 0, 0, 0, 1, 1),
               Some(PadaVibhaga_from_string(
                        <<"r", "$", "S", "$", "1", "$", "1", "$">>).val),
               SutraTypeInfo_from_string(<<"S", "$", "x", "$">>).val,
               Backlinks_from_strings(ExFused, ExParts).val, word[3])

\* the sutras collections are made of: 1.1.1 occurs with both words
SutraPool ==
    { <<t, w>> \in SutraTriples \X SutraWords :
        \/ t = <<1, 1, 1>>
        \/ t \in { <<1, 1, 10>>, <<2, 1, 1>> } /\ w[3] = <<"c">>
        \/ t = <<1, 2, 1>> /\ w[3] # <<"c">> }

SutraLists ==
    { [k \in 1..Len(ts) |-> SutraAt(k, ts[k][1], ts[k][2])] :
        ts \in SeqsUpTo(SutraPool, MaxSutras) }

\* the references asked for: strings, canonical or not, and SutraReference
\* objects
ReferenceStrings ==
    { <<"1", ".", "1", ".", "1">>, <<"1", ".", "1", ".", "1", "0">>,
      <<"2", ".", "1", ".", "1">>, <<"9", ".", "9", ".", "9">>,
      <<"1", ".", "1", ".", "0", "1">>, <<"1", ".", "1">>, <<>> }

StringArgs == { [type |-> "str", value |-> s] : s \in ReferenceStrings }

ReferenceArgs ==
    { [type |-> "SutraReference",
       value |-> SutraReference(
                     SutraIdentifier_init(0, t[1], t[2], t[3]).val, <<"f">>)] :
        t \in { <<1, 1, 1>>, <<2, 1, 1>>, <<8, 4, 1>> } }

InitCollection ==
    /\ pc = "query"
    /\ other \in { Ok(SutraCollection(<<"A">>, sutras)) : sutras \in SutraLists }
    /\ \/ args \in [reference : StringArgs]
       \/ args \in [reference : ReferenceArgs]
    /\ ret = Pending
    /\ cmp = <<>>

\* collection.get_by_reference(reference)
GetByReference ==
    /\ pc = "query"
    /\ ret' = get_by_reference(other.val, args.reference)
    /\ pc' = "done"
    /\ UNCHANGED <<args, other, cmp>>

\* the texts searched for
SearchTexts ==
    { <<>>, <<"a">>, <<"A">>, <<"a", "b">>, <<"A", "b">>, <<"b", "a">>,
      <<"C">>, <<"z">> }

\* collection.search_text(text, case_sensitive)
SearchText ==
    /\ pc = "query"
    /\ \E text \in SearchTexts, case_sensitive \in BOOLEAN :
           cmp' = [op |-> "search_text", text |-> text,
                   case_sensitive |-> case_sensitive,
                   result |-> search_text(other.val, text, case_sensitive)]
    /\ pc' = "queried"
    /\ UNCHANGED <<args, ret, other>>

\* the comparisons of the sutras at two positions, and their hashes
CompareSutras ==
    /\ pc = "query"
    /\ \E i \in 1..Len(other.val.sutras), j \in 1..Len(other.val.sutras) :
           cmp' = [op |-> "compare", i |-> i, j |-> j,
                   eq |-> Sutra_eq(other.val.sutras[i], other.val.sutras[j]),
                   lt |-> Sutra_lt(other.val.sutras[i], other.val.sutras[j]),
                   le |-> Sutra_le(other.val.sutras[i], other.val.sutras[j]),
                   gt |-> Sutra_gt(other.val.sutras[i], other.val.sutras[j]),
                   ge |-> Sutra_ge(other.val.sutras[i], other.val.sutras[j]),
                   hash |-> Sutra_hash(other.val.sutras[i]),
                   other_hash |-> Sutra_hash(other.val.sutras[j])]
    /\ pc' = "queried"
    /\ UNCHANGED <<args, ret, other>>

\* the chapters and quarters asked for
MaxAdhyayaArg == 3
MaxPadaArg == 3

\* collection.get_by_adhyaya(adhyaya)
GetByAdhyaya ==
    /\ pc = "query"
    /\ \E adhyaya \in 0..MaxAdhyayaArg :
           cmp' = [op |-> "get_by_adhyaya", adhyaya |-> adhyaya,
                   result |-> get_by_adhyaya(other.val, adhyaya)]
    /\ pc' = "queried"
    /\ UNCHANGED <<args, ret, other>>

\* collection.get_by_pada(adhyaya, pada)
GetByPada ==
    /\ pc = "query"
    /\ \E adhyaya \in 0..MaxAdhyayaArg, pada \in 0..MaxPadaArg :
           cmp' = [op |-> "get_by_pada", adhyaya |-> adhyaya, pada |-> pada,
                   result |-> get_by_pada(other.val, adhyaya, pada)]
    /\ pc' = "queried"
    /\ UNCHANGED <<args, ret, other>>

\* collection.get_sorted()
GetSorted ==
    /\ pc = "query"
    /\ cmp' = [op |-> "get_sorted", result |-> get_sorted(other.val).result,
               same_list |-> get_sorted(other.val).same_list]
    /\ other' = Ok(get_sorted(other.val).self)
    /\ pc' = "queried"
    /\ UNCHANGED <<args, ret>>

\* len(collection)
CollectionLength ==
    /\ pc = "query"
    /\ cmp' = [op |-> "len", result |-> SutraCollection_len(other.val)]
    /\ pc' = "queried"
    /\ UNCHANGED <<args, ret, other>>

\* collection[index]
GetItem ==
    /\ pc = "query"
    /\ \E index \in (-(MaxSutras + 1))..MaxSutras :
           cmp' = [op |-> "getitem", index |-> index,
                   result |-> SutraCollection_getitem(other.val, index)]
    /\ pc' = "queried"
    /\ UNCHANGED <<args, ret, other>>

\* list(collection)
Iterate ==
    /\ pc = "query"
    /\ cmp' = [op |-> "iter", result |-> SutraCollection_iter(other.val)]
    /\ pc' = "queried"
    /\ UNCHANGED <<args, ret, other>>

NextCollection ==
    \/ GetByReference \/ SearchText \/ CompareSutras \/ GetByAdhyaya
    \/ GetByPada \/ GetSorted \/ CollectionLength \/ GetItem \/ Iterate

SpecCollection == InitCollection /\ [][NextCollection]_vars


(***************************************************************************)
(* SutraIdentifier: an identifier is constructed, added to a set, and then *)
(* has attributes assigned.                                                *)
(***************************************************************************)

HeldArgs == [adhyaya : {0, 1, 8}, pada : {1, 4}, number : {1, 2}]
AttributeNames == {"adhyaya", "pada", "number"}
AttributeValues == {0, 1, 4, 9, 127}

InitHeld ==
    /\ pc = "SutraIdentifier"
    /\ args \in HeldArgs
    /\ ret = Pending
    /\ other = Pending
    /\ cmp = <<>>

\* x = SutraIdentifier(adhyaya, pada, number)
HeldNew ==
    /\ pc = "SutraIdentifier"
    /\ ret' = SutraIdentifier_init(1, args.adhyaya, args.pada, args.number)
    /\ pc' = IF ret'.raised = "none" THEN "held" ELSE "done"
    /\ UNCHANGED <<args, other, cmp>>

\* members = {x}: the set files x under hash(x)
SetAdd ==
    /\ pc = "held"
    /\ cmp' = [key_hash |-> SutraIdentifier_hash(ret.val)]
    /\ pc' = "member"
    /\ UNCHANGED <<args, ret, other>>

\* x.adhyaya = value, x.pada = value or x.number = value
SetAttr ==
    /\ pc \in {"member", "assigned"}
    /\ \E name \in AttributeNames, value \in AttributeValues :
           ret' = Ok(SutraIdentifier_setattr(ret.val, name, value))
    /\ pc' = "assigned"
    /\ UNCHANGED <<args, other, cmp>>

NextHeld == HeldNew \/ SetAdd \/ SetAttr

SpecHeld == InitHeld /\ [][NextHeld]_vars


(***************************************************************************)
(* read_sutras, one check at a time: the path, json.load, the root value,  *)
(* then for each record the dict test, the required fields and the         *)
(* construction of the Sutra.  cmp is the list of the checks made so far,  *)
(* other the list of the sutras appended so far.                           *)
(***************************************************************************)

\* roots with more than one defect
MoreBadRoots ==
    { [RootOf(<<>>) EXCEPT !.type = "list", !.keys = {}],
      [RootOf(<<>>) EXCEPT !.keys = {"data"}, !.data_type = "dict"],
      [RootOf(<<NotADict>>) EXCEPT !.keys = {"name"}] }

\* files as before, and files that are missing or are not JSON, with what
\* the later checks would have met
LoadFiles ==
    Files
    \cup { [exists |-> e, valid_json |-> j, root |-> d] :
             e \in BOOLEAN, j \in BOOLEAN,
             d \in BadRoots \cup MoreBadRoots
                   \cup { RootOf(<<>>), RootOf(<<NotADict>>),
                          RootOf(<<DictOf(BaseFields)>>) } }

Step(check, index) == [check |-> check, index |-> index]

InitLoad ==
    /\ pc = "exists"
    /\ args \in [file : LoadFiles]
    /\ ret = Pending
    /\ other = Ok(<<>>)
    /\ cmp = <<>>

\* a check that fails raises and ends the call
Fail(error) == ret' = error /\ pc' = "done" /\ UNCHANGED <<args, other>>

\* `if not file_path.exists(): raise FileNotFoundError`
CheckExists ==
    /\ pc = "exists"
    /\ cmp' = Append(cmp, Step("exists", -1))
    /\ IF ~args.file.exists
       THEN Fail(RaiseMsg("FileNotFoundError",
                          Message("Sutras data file not found",
                                  None, <<>>, None)))
       ELSE pc' = "json" /\ UNCHANGED <<args, ret, other>>

\* `data = json.load(f)`
LoadJson ==
    /\ pc = "json"
    /\ cmp' = Append(cmp, Step("json", -1))
    /\ IF ~args.file.valid_json
       THEN Fail(RaiseMsg("ValueError",
                          Message("Invalid JSON in file", None, <<>>, None)))
       ELSE pc' = "root" /\ UNCHANGED <<args, ret, other>>

\* the four tests of the root value
CheckRoot ==
    /\ pc = "root"
    /\ cmp' = Append(cmp, Step("root", -1))
    /\ IF read_root([args.file.root EXCEPT !.data = <<>>]).raised # "none"
       THEN Fail(read_root([args.file.root EXCEPT !.data = <<>>]))
       ELSE pc' = "dict" /\ UNCHANGED <<args, ret, other>>

\* the end of the loop: the collection is returned
Return ==
    /\ pc = "dict"
    /\ Len(other.val) = Len(args.file.root.data)
    /\ ret' = Ok(SutraCollection(args.file.root.name, other.val))
    /\ pc' = "done"
    /\ UNCHANGED <<args, other, cmp>>

\* `if not isinstance(sutra_data, dict): raise ValueError`
RecordIsDict ==
    /\ pc = "dict"
    /\ Len(other.val) < Len(args.file.root.data)
    /\ cmp' = Append(cmp, Step("dict", Len(other.val)))
    /\ IF args.file.root.data[Len(other.val) + 1].type # "dict"
       THEN Fail(read_record(args.file.root.data[Len(other.val) + 1],
                             Len(other.val)))
       ELSE pc' = "fields" /\ UNCHANGED <<args, ret, other>>

\* `if missing_fields: raise KeyError`
RecordFields ==
    /\ pc = "fields"
    /\ cmp' = Append(cmp, Step("fields", Len(other.val)))
    /\ IF missing_fields(args.file.root.data[Len(other.val) + 1].fields) # <<>>
       THEN Fail(read_record(args.file.root.data[Len(other.val) + 1],
                             Len(other.val)))
       ELSE pc' = "build" /\ UNCHANGED <<args, ret, other>>

\* the try block: the sutra is built and appended, or ValueError
RecordBuild ==
    /\ pc = "build"
    /\ cmp' = Append(cmp, Step("build", Len(other.val)))
    /\ IF new_sutra(args.file.root.data[Len(other.val) + 1].fields,
                    Len(other.val)).raised # "none"
       THEN Fail(WrapError(
                new_sutra(args.file.root.data[Len(other.val) + 1].fields,
                          Len(other.val)), Len(other.val)))
       ELSE /\ other' = Ok(Append(other.val,
                new_sutra(args.file.root.data[Len(other.val) + 1].fields,
                          Len(other.val)).val))
            /\ pc' = "dict"
            /\ UNCHANGED <<args, ret>>

NextLoad ==
    \/ CheckExists \/ LoadJson \/ CheckRoot
    \/ RecordIsDict \/ RecordFields \/ RecordBuild \/ Return

SpecLoad == InitLoad /\ [][NextLoad]_vars


(***************************************************************************)
(* read_sutras: two calls, on two files.                                   *)
(***************************************************************************)

\* the well-formed records the two files are made of
SharedRecords ==
    { DictOf([BaseFields EXCEPT !["n"] = <<"2">>, !["an"] = ExFused,
                                !["ad"] = ExParts]),
      DictOf([BaseFields EXCEPT !["pc"] = <<"x">>, !["skn"] = <<"x">>,
                                !["type"] = <<"Z">>, !["an"] = ExLetters]),
      DictOf([BaseFields EXCEPT !["pc"] = <<>>, !["a"] = <<"2">>]) }

SharedFiles ==
    { [exists |-> TRUE, valid_json |-> TRUE, root |-> RootOf(data)] :
        data \in SeqsUpTo(SharedRecords, MaxRecords) }

InitTwoLoads ==
    /\ pc = "read_sutras"
    /\ args \in [file : SharedFiles, second : SharedFiles]
    /\ ret = Pending
    /\ other = Pending
    /\ cmp = <<>>

\* first = read_sutras(file_path)
FirstLoad ==
    /\ pc = "read_sutras"
    /\ ret' = read_sutras(args.file)
    /\ pc' = "second"
    /\ UNCHANGED <<args, other, cmp>>

\* second = read_sutras(second_path)
SecondLoad ==
    /\ pc = "second"
    /\ other' = read_sutras(args.second)
    /\ pc' = "done"
    /\ UNCHANGED <<args, ret, cmp>>

NextTwoLoads == FirstLoad \/ SecondLoad

SpecTwoLoads == InitTwoLoads /\ [][NextTwoLoads]_vars


(***************************************************************************)
(* Properties of SutraCarryover.from_string.                               *)
(***************************************************************************)

Returned == pc = "done" /\ ret.raised = "none"
Entries == Split(args.carryover_text, <<"#", "#">>)

\* what a reference carries: fragment, chapter, quarter, ordinal
RefFields(r) ==
    <<r.text_portion, r.sutra_id.adhyaya, r.sutra_id.pada, r.sutra_id.number>>

FieldsOf(refs) == [i \in 1..Len(refs) |-> RefFields(refs[i])]

\* the word-continuation rule: exactly 2 parts, the trimmed second of at
\* least 5 characters: chapter digit, quarter digit, integer ordinal
FusedAccepts(entry) ==
    LET parts == Split(entry, <<"$">>)
        s == Strip(parts[2])
        ordinal == PyInt(SubSeq(s, 3, Len(s)))
    IN  /\ Len(parts) = 2
        /\ Len(s) >= 5
        /\ s[1] \in DigitChars /\ DigitVal(s[1]) \in 1..8
        /\ s[2] \in DigitChars /\ DigitVal(s[2]) \in 1..4
        /\ ordinal.raised = "none" /\ ordinal.val >= 1

FusedFields(entry) ==
    LET parts == Split(entry, <<"$">>)
        s == Strip(parts[2])
    IN  <<Strip(parts[1]), DigitVal(s[1]), DigitVal(s[2]),
          PyInt(SubSeq(s, 3, Len(s))).val>>

\* the scope-governance rule: exactly 4 parts, the trimmed parts 1, 2, 3
\* integers within the identifier's ranges
PartsAccepts(entry) ==
    LET parts == Split(entry, <<"$">>)
        c == PyInt(Strip(parts[2]))
        q == PyInt(Strip(parts[3]))
        o == PyInt(Strip(parts[4]))
    IN  /\ Len(parts) = 4
        /\ c.raised = "none" /\ c.val \in 1..8
        /\ q.raised = "none" /\ q.val \in 1..4
        /\ o.raised = "none" /\ o.val >= 1

PartsFields(entry) ==
    LET parts == Split(entry, <<"$">>)
    IN  <<Strip(parts[1]), PyInt(Strip(parts[2])).val, PyInt(Strip(parts[3])).val,
          PyInt(Strip(parts[4])).val>>

\* C1: from_string raises for no input string under ANUVRITTI or ADHIKARA;
\* it always returns a SutraCarryover of the requested kind.
C1_NeverRaises ==
    (pc = "done" /\ args.carryover_type \in {ANUVRITTI, ADHIKARA})
        => /\ ret.raised = "none"
           /\ ret.val.carryover_type = args.carryover_type

\* a text whose only entry fails to decode came back with no references
C1_Witness ==
    /\ Returned
    /\ args.carryover_text \in {ExLetters, ExLetterParts}
    /\ args.carryover_type \in {ANUVRITTI, ADHIKARA}
    /\ ret.val.references = <<>>

\* C2: under ANUVRITTI an entry yields a reference exactly when it has 2
\* '$' parts and the trimmed second part, of at least 5 characters, is a
\* chapter digit in 1..8, a quarter digit in 1..4 and an integer ordinal >= 1
\* from offset 2; the reference carries that identifier and the trimmed
\* first part; 'fragment$11001' gives 1.1.1, 'text$11' gives nothing.
C2_AnuvrittiEntry ==
    (pc = "done" /\ args.carryover_type = ANUVRITTI)
        => /\ ret.raised = "none"
           /\ Len(Entries) = 1 =>
                 FieldsOf(ret.val.references) =
                     IF FusedAccepts(Entries[1]) THEN <<FusedFields(Entries[1])>>
                     ELSE <<>>
           /\ args.carryover_text = ExFused =>
                 FieldsOf(ret.val.references) =
                     <<<<<<"f", "r", "a", "g", "m", "e", "n", "t">>, 1, 1, 1>>>>
           /\ args.carryover_text = ExShortRef => ret.val.references = <<>>

C2_Witness ==
    /\ Returned
    /\ args.carryover_type = ANUVRITTI
    /\ args.carryover_text = ExFused
    /\ Len(ret.val.references) = 1

\* C3: under ADHIKARA an entry yields a reference exactly when it has 4 '$'
\* parts and the trimmed parts 1, 2, 3 are integers, chapter in 1..8, quarter
\* in 1..4, ordinal >= 1; the reference carries that identifier and the
\* trimmed first part; 'fragment$1$4$23' gives 1.4.23.
C3_AdhikaraEntry ==
    (pc = "done" /\ args.carryover_type = ADHIKARA)
        => /\ ret.raised = "none"
           /\ Len(Entries) = 1 =>
                 FieldsOf(ret.val.references) =
                     IF PartsAccepts(Entries[1]) THEN <<PartsFields(Entries[1])>>
                     ELSE <<>>
           /\ args.carryover_text = ExParts =>
                 FieldsOf(ret.val.references) =
                     <<<<<<"f", "r", "a", "g", "m", "e", "n", "t">>, 1, 4, 23>>>>

C3_Witness ==
    /\ Returned
    /\ args.carryover_type = ADHIKARA
    /\ args.carryover_text = ExParts
    /\ Len(ret.val.references) = 1

\* C4 as stated: 'valid$111##invalid##another$222' under ANUVRITTI yields
\* exactly two references, 'valid' 1.1.1 and 'another' 2.2.2, in that order.
C4_Original ==
    (pc = "done" /\ args.carryover_type = ANUVRITTI
        /\ args.carryover_text = ExMixed)
        => /\ ret.raised = "none"
           /\ FieldsOf(ret.val.references) =
                  <<<<<<"v", "a", "l", "i", "d">>, 1, 1, 1>>, <<<<"a", "n", "o", "t", "h", "e", "r">>, 2, 2, 2>>>>

\* C4 amended: 'valid$111##invalid##another$222' under ANUVRITTI yields no
\* reference, the fused strings '111' and '222' being shorter than 5
\* characters; with five-character fused strings,
\* 'valid$11001##invalid##another$22002', it yields exactly 'valid' 1.1.1 and
\* 'another' 2.2.2, in that order, skipping 'invalid'.
C4_MixedValidity ==
    (pc = "done" /\ args.carryover_type = ANUVRITTI)
        => /\ args.carryover_text = ExMixed =>
                 ret.raised = "none" /\ ret.val.references = <<>>
           /\ args.carryover_text = ExMixedLong =>
                 /\ ret.raised = "none"
                 /\ FieldsOf(ret.val.references) =
                        <<<<<<"v", "a", "l", "i", "d">>, 1, 1, 1>>, <<<<"a", "n", "o", "t", "h", "e", "r">>, 2, 2, 2>>>>

C4_Witness ==
    /\ Returned
    /\ args.carryover_type = ANUVRITTI
    /\ args.carryover_text = ExMixed
    /\ Len(Entries) = 3
    /\ Len(ret.val.references) = 0

\* C5: the returned carryover's combined_text is the input verbatim, however
\* many entries were dropped; an empty or all-whitespace input yields no
\* references and keeps its text untrimmed.
C5_TextVerbatim ==
    pc = "done"
        => /\ ret.raised = "none"
           /\ ret.val.combined_text = args.carryover_text
           /\ (\A i \in 1..Len(args.carryover_text) :
                   args.carryover_text[i] \in Whitespace)
                 => ret.val.references = <<>>
           /\ args.carryover_text = ExSpaces =>
                 ret.val.combined_text = <<" ", " ", " ">>

C5_Witness ==
    /\ Returned
    /\ args.carryover_text = ExSpaces
    /\ ret.val.references = <<>>
    /\ Len(ret.val.combined_text) = 3

\* C6: the references are exactly the entries that decode, in the order of
\* the entries, duplicates kept; empty entries, entries without '$' and
\* entries that fail to decode are dropped and leave the others untouched.
C6_SurvivorsInOrder ==
    (pc = "done" /\ args.carryover_type \in {ANUVRITTI, ADHIKARA})
        => LET accepts(i) == IF args.carryover_type = ANUVRITTI
                             THEN FusedAccepts(Entries[i])
                             ELSE PartsAccepts(Entries[i])
               fields(i) == IF args.carryover_type = ANUVRITTI
                            THEN FusedFields(Entries[i])
                            ELSE PartsFields(Entries[i])
               kept == {i \in 1..Len(Entries) : accepts(i)}
               rank(i) == Cardinality({j \in kept : j <= i})
           IN  /\ ret.raised = "none"
               /\ Len(ret.val.references) = Cardinality(kept)
               /\ \A i \in kept :
                      RefFields(ret.val.references[rank(i)]) = fields(i)
               /\ \A i \in 1..Len(Entries) :
                      (Entries[i] = <<>> \/ ~Contains(Entries[i], "$"))
                          => i \notin kept

\* two equal entries around a dropped one both came back, in order
C6_Witness ==
    /\ Returned
    /\ Len(Entries) = 3
    /\ ~Contains(Entries[2], "$")
    /\ Entries[1] = Entries[3]
    /\ Len(ret.val.references) = 2
    /\ RefFields(ret.val.references[1]) = RefFields(ret.val.references[2])

InRange(a) ==
    /\ 1 <= a.adhyaya /\ a.adhyaya <= 8
    /\ 1 <= a.pada /\ a.pada <= 4
    /\ a.number >= 1

SameTriple(a, b) ==
    a.adhyaya = b.adhyaya /\ a.pada = b.pada /\ a.number = b.number

\* lexicographic order on (adhyaya, pada, number)
LexLess(a, b) ==
    \/ a.adhyaya < b.adhyaya
    \/ a.adhyaya = b.adhyaya /\ a.pada < b.pada
    \/ a.adhyaya = b.adhyaya /\ a.pada = b.pada /\ a.number < b.number

\* s is 'A.P.N': three dot-separated runs of plain decimal digits without a
\* leading zero, reading back as the identifier's three integers
IsCanonical(s, a) ==
    LET parts == Split(s, <<".">>)
    IN  /\ Len(parts) = 3
        /\ \A i \in 1..3 :
               /\ parts[i] # <<>>
               /\ parts[i][1] # "0"
               /\ \A j \in 1..Len(parts[i]) :
                      parts[i][j] \in {"0", "1", "2", "3", "4", "5", "6", "7", "8", "9"}
        /\ PyInt(parts[1]).val = a.adhyaya
        /\ PyInt(parts[2]).val = a.pada
        /\ PyInt(parts[3]).val = a.number

\* C8: SutraIdentifier construction succeeds exactly when adhyaya is in
\* 1..8, pada in 1..4 and number >= 1, and raises ValueError otherwise; the
\* reference of a constructed identifier is '{adhyaya}.{pada}.{number}', and
\* distinct triples give distinct references.
C8_ConstructionAndReference ==
    /\ pc # "SutraIdentifier" =>
          /\ ret.raised = "none" <=> InRange(args)
          /\ ret.raised # "none" => ret.raised = "ValueError"
          /\ ret.raised = "none" => SameTriple(ret.val, args)
    /\ cmp # <<>> =>
          /\ IsCanonical(cmp.reference_self, ret.val)
          /\ IsCanonical(cmp.reference_other, other.val)
          /\ (args.adhyaya = 1 /\ args.pada = 1 /\ args.number = 1)
                => cmp.reference_self = <<"1", ".", "1", ".", "1">>
          /\ (args.adhyaya = 8 /\ args.pada = 4 /\ args.number = 127)
                => cmp.reference_self = <<"8", ".", "4", ".", "1", "2", "7">>
          /\ ~SameTriple(ret.val, other.val)
                => cmp.reference_self # cmp.reference_other

\* two identifiers of distinct triples, one with a two-digit number
C8_Witness ==
    /\ pc = "done"
    /\ cmp # <<>>
    /\ args.number = 11
    /\ other.val.adhyaya = 1 /\ other.val.pada = 1 /\ other.val.number = 1
    /\ args.adhyaya = 1 /\ args.pada = 1
    /\ cmp.reference_self # cmp.reference_other

\* C9: identifier ordering is a strict total order agreeing with the tuple
\* order of (adhyaya, pada, number): exactly one of a < b, a == b, a > b
\* holds, <= and >= agree with it, equality is by value of the three
\* integers, and equal identifiers have equal hashes.
C9_TotalOrder ==
    cmp # <<>> =>
        LET a == ret.val
            b == other.val
        IN  /\ cmp.lt <=> LexLess(a, b)
            /\ cmp.gt <=> LexLess(b, a)
            /\ cmp.eq <=> SameTriple(a, b)
            /\ \/ cmp.lt /\ ~cmp.eq /\ ~cmp.gt
               \/ ~cmp.lt /\ cmp.eq /\ ~cmp.gt
               \/ ~cmp.lt /\ ~cmp.eq /\ cmp.gt
            /\ cmp.le <=> (cmp.lt \/ cmp.eq)
            /\ cmp.ge <=> (cmp.gt \/ cmp.eq)
            /\ cmp.eq => cmp.hash_self = cmp.hash_other

\* an identifier below another one although its pada and number are larger
C9_Witness ==
    /\ cmp # <<>>
    /\ cmp.lt
    /\ ret.val.adhyaya < other.val.adhyaya
    /\ ret.val.pada > other.val.pada
    /\ ret.val.number > other.val.number

\* C10: Backlinks construction raises ValueError when the anuvritti slot
\* holds a carryover whose kind is not ANUVRITTI or the adhikara slot one
\* whose kind is not ADHIKARA; it coerces nothing, so every constructed
\* Backlinks holds an ANUVRITTI carryover in the anuvritti slot and an
\* ADHIKARA carryover in the adhikara slot.
C10_BacklinksKinds ==
    pc = "done" =>
        /\ other # Pending =>
              /\ ret.raised = "ValueError" <=>
                     \/ args.anuvritti_type # ANUVRITTI
                     \/ args.adhikara_type # ADHIKARA
              /\ other.val.anuvritti.carryover_type = args.anuvritti_type
              /\ other.val.adhikara.carryover_type = args.adhikara_type
              /\ ret.raised \in {"none", "ValueError"}
              /\ ret.raised = "none" =>
                     /\ ret.val.anuvritti = other.val.anuvritti
                     /\ ret.val.adhikara = other.val.adhikara
        /\ ret.raised = "none" =>
              /\ ret.val.anuvritti.carryover_type = ANUVRITTI
              /\ ret.val.adhikara.carryover_type = ADHIKARA

\* a right anuvritti slot and a wrong adhikara slot were refused
C10_Witness ==
    /\ pc = "done"
    /\ other # Pending
    /\ other.val.anuvritti.carryover_type = ANUVRITTI
    /\ other.val.adhikara.carryover_type = ANUVRITTI
    /\ ret.raised = "ValueError"

(***************************************************************************)
(* Properties of Backlinks' derived attributes.                            *)
(***************************************************************************)

\* a text with a character that trimming keeps
NonBlank(text) == \E i \in 1..Len(text) : text[i] \notin Whitespace

\* C11: has_anuvritti (has_adhikara) is true exactly when the raw text of
\* the slot is non-empty after trimming, however many references were
\* parsed from it, and total_references is the sum of the two carryovers'
\* reference counts.
C11_HasContent ==
    pc = "read" =>
        /\ cmp.has_anuvritti <=> NonBlank(args.anuvritti_text)
        /\ cmp.has_adhikara <=> NonBlank(args.adhikara_text)
        /\ cmp.total_references =
               Len(from_string(args.anuvritti_text, ANUVRITTI).val.references)
               + Len(from_string(args.adhikara_text, ADHIKARA).val.references)
        /\ cmp.total_references =
               Len(ret.val.anuvritti.references)
               + Len(ret.val.adhikara.references)

\* a non-blank text without any reference counts as content, next to a
\* slot that parsed to a reference
C11_Witness ==
    /\ pc = "read"
    /\ args.anuvritti_text = ExNoDollar
    /\ ret.val.anuvritti.references = <<>>
    /\ cmp.has_anuvritti
    /\ ~cmp.has_adhikara
    /\ args.adhikara_text = ExSpaces
    /\ cmp.total_references = 0

(***************************************************************************)
(* Properties of PadaAnalysis and PadaVibhaga.                             *)
(***************************************************************************)

\* C12: PadaAnalysis construction raises ValueError exactly when vibhakti
\* is outside 0..8, or vachana is outside 0..3, or exactly one of the two
\* is 0; for every other pair it succeeds and keeps its arguments, so in
\* every constructed PadaAnalysis vibhakti = 0 if and only if vachana = 0.
C12_SentinelCoupling ==
    pc \in {"done", "read"} =>
        /\ ret.raised \in {"none", "ValueError"}
        /\ ret.raised = "ValueError" <=>
               \/ args.vibhakti \notin 0..8
               \/ args.vachana \notin 0..3
               \/ (args.vibhakti = 0 /\ args.vachana # 0)
               \/ (args.vibhakti # 0 /\ args.vachana = 0)
        /\ ret.raised = "none" =>
               /\ ret.val = [word |-> args.word, gender |-> args.gender,
                             vibhakti |-> args.vibhakti,
                             vachana |-> args.vachana]
               /\ ret.val.vibhakti = 0 <=> ret.val.vachana = 0
        /\ pc = "read" =>
               (cmp.is_avyaya <=> ret.val.vibhakti = 0)

\* an in-range pair with one sentinel was refused
C12_Witness ==
    /\ pc = "done"
    /\ args.vibhakti = 0
    /\ args.vachana = 1
    /\ ret.raised = "ValueError"

\* an entry of at least 4 '$' parts whose third and fourth parts are
\* integers within the ranges and with coupled sentinels
PadaAccepts(entry) ==
    LET parts == Split(entry, <<"$">>)
        v == PyInt(parts[3])
        n == PyInt(parts[4])
    IN  /\ NonBlank(entry)
        /\ Len(parts) >= 4
        /\ v.raised = "none" /\ v.val \in 0..8
        /\ n.raised = "none" /\ n.val \in 0..3
        /\ v.val = 0 <=> n.val = 0

\* the analysis of an accepted entry
PadaOf(entry) ==
    LET parts == Split(entry, <<"$">>)
    IN  [word |-> parts[1], gender |-> parts[2],
         vibhakti |-> PyInt(parts[3]).val, vachana |-> PyInt(parts[4]).val]

\* C14: PadaVibhaga.from_string never raises and returns, in source order,
\* one PadaAnalysis per non-blank '##' entry of at least 4 '$' parts whose
\* third and fourth parts are integers passing the range and
\* sentinel-coupling checks; parts after the fourth are ignored and every
\* other entry is dropped without affecting its siblings.
C14_WordAnalyses ==
    pc \in {"done", "read"} =>
        LET accepted ==
                SelectSeq(Split(args.pc_string, <<"#", "#">>), PadaAccepts)
        IN  /\ ret.raised = "none"
            /\ ret.val.words = [i \in 1..Len(accepted) |-> PadaOf(accepted[i])]
            /\ pc = "read" => cmp.len = Len(accepted)

\* a three-part entry was dropped and its four-part sibling kept
C14_Witness ==
    /\ pc = "done"
    /\ args.pc_string = ExPadaMalformed
    /\ ret.raised = "none"
    /\ ret.val.words =
           << [word |-> <<"g">>, gender |-> <<"A">>,
               vibhakti |-> 0, vachana |-> 0] >>

(***************************************************************************)
(* Properties of SutraTypeInfo.from_string.                                *)
(***************************************************************************)

TypeCodeValues == { m[2] : m \in SutraTypeMembers }

\* a non-blank entry whose trimmed first '$' part is one of the codes
TypeAccepts(entry) ==
    /\ NonBlank(entry)
    /\ Strip(Split(entry, <<"$">>)[1]) \in TypeCodeValues

\* the classification of an accepted entry
TypeOf(entry) ==
    LET parts == Split(entry, <<"$">>)
        code == Strip(parts[1])
    IN  [sutra_type |-> (CHOOSE m \in SutraTypeMembers : m[2] = code)[1],
         explanation |-> IF Len(parts) >= 2 /\ NonBlank(parts[2])
                         THEN Some(Strip(parts[2])) ELSE None]

\* C13: SutraTypeInfo.from_string never raises and returns, in source order
\* and keeping duplicates, one classification per non-blank '##' entry
\* whose trimmed first '$' part is one of S, P, V, AT, AD; other entries are
\* dropped; the explanation is the trimmed second part when it is
\* non-blank and None otherwise, so 'code$$' is classified, not dropped.
C13_Classifications ==
    pc \in {"done", "read"} =>
        LET accepted ==
                SelectSeq(Split(args.type_string, <<"#", "#">>), TypeAccepts)
        IN  /\ ret.raised = "none"
            /\ ret.val.classifications =
                   [i \in 1..Len(accepted) |-> TypeOf(accepted[i])]

\* an unknown code between two known ones was dropped, and the entry
\* without explanation was kept
C13_Witness ==
    /\ pc = "done"
    /\ args.type_string = ExTypesInvalid
    /\ ret.raised = "none"
    /\ ret.val.classifications =
           << [sutra_type |-> "PARIBHASHA", explanation |-> Some(<<"x">>)],
              [sutra_type |-> "VIDHI", explanation |-> None] >>

(***************************************************************************)
(* Properties of read_sutras.                                              *)
(***************************************************************************)

Finished == pc \in {"done", "read"}

\* the file is there, is JSON, and its root is a dict with a name and a
\* list of records
Loadable ==
    /\ args.file.exists /\ args.file.valid_json
    /\ args.file.root.type = "dict"
    /\ {"name", "data"} \subseteq args.file.root.keys
    /\ args.file.root.data_type = "list"

Data == args.file.root.data

FieldNames == { required_fields[k] : k \in 1..Len(required_fields) }

\* a record without one of the required fields
LacksField(element) ==
    /\ element.type = "dict"
    /\ \E f \in FieldNames : f \notin DOMAIN element.fields

IsNumber(s) == PyInt(s).raised = "none"

\* a record with all the fields whose a, p or n is not a number
NonNumeric(element) ==
    /\ element.type = "dict"
    /\ FieldNames \subseteq DOMAIN element.fields
    /\ \E f \in {"a", "p", "n"} : ~IsNumber(element.fields[f])

\* a record with all the fields and numbers in a, p, n that are outside
\* the identifier's ranges
OutOfRange(element) ==
    /\ element.type = "dict"
    /\ FieldNames \subseteq DOMAIN element.fields
    /\ \A f \in {"a", "p", "n"} : IsNumber(element.fields[f])
    /\ \/ PyInt(element.fields["a"]).val \notin 1..8
       \/ PyInt(element.fields["p"]).val \notin 1..4
       \/ PyInt(element.fields["n"]).val < 1

BadIdentifier(element) == NonNumeric(element) \/ OutOfRange(element)

Defective(element) ==
    element.type # "dict" \/ LacksField(element) \/ BadIdentifier(element)

\* k is the position of the first defective record
FirstDefective(k) ==
    /\ k \in 1..Len(Data)
    /\ Defective(Data[k])
    /\ \A j \in 1..(k - 1) : ~Defective(Data[j])

\* the required fields that a record lacks, in the order of the list
MissingOf(element) ==
    SelectSeq(required_fields, LAMBDA f : f \notin DOMAIN element.fields)

\* C15 as stated: read_sutras raises KeyError if any record lacks any of
\* the 19 required fields, and returns no collection.
C15_Original ==
    Finished /\ Loadable /\ (\E k \in 1..Len(Data) : LacksField(Data[k])) =>
        ret.raised = "KeyError"

\* C15, amended: if any record lacks a required field the load fails and
\* no collection is returned; the error is the KeyError of that record,
\* with its index and the missing field names, when no record before it
\* is defective, and the error of the first defective record otherwise.
C15_MissingField ==
    Finished /\ Loadable =>
        /\ (\E k \in 1..Len(Data) : LacksField(Data[k])) => ret.raised # "none"
        /\ \A k \in 1..Len(Data) :
               FirstDefective(k) /\ LacksField(Data[k]) =>
                   /\ ret.raised = "KeyError"
                   /\ ret.val.index = Some(k - 1)
                   /\ ret.val.fields = MissingOf(Data[k])
        /\ \A k \in 1..Len(Data) :
               FirstDefective(k) /\ ~LacksField(Data[k]) =>
                   ret.raised = "ValueError"

\* the second record lacks two fields after a well-formed first one
C15_Witness ==
    /\ pc = "done"
    /\ Loadable
    /\ Len(Data) >= 2
    /\ ~Defective(Data[1])
    /\ LacksField(Data[2])
    /\ ret.raised = "KeyError"
    /\ ret.val.index = Some(1)
    /\ ret.val.fields = <<"i", "a">>

WellFormed(element) ==
    /\ element.type = "dict"
    /\ FieldNames \subseteq DOMAIN element.fields
    /\ ~BadIdentifier(element)

\* the integer a numeric cross-reference field is coerced to
NumberOrZero(s) == IF IsNumber(s) THEN PyInt(s).val ELSE 0

NumericFields ==
    {"skn", "lskn", "mskn", "sskn", "plskn", "lpn", "sk_chapter", "lsk_chapter"}

\* C17: when every record has all the required fields and a well-formed
\* identifier, read_sutras succeeds whatever strings the annotation fields
\* (type, an, ad, pc) and the eight numeric fields hold: every record
\* appears, a blank or unparsable numeric field is 0, and the annotation
\* fields hold what their parsers keep; a load fails only because of a
\* record that lacks a field, has a malformed identifier or is not a dict.
C17_AnnotationTolerant ==
    Finished /\ Loadable =>
        /\ ret.raised # "none" => \E k \in 1..Len(Data) : ~WellFormed(Data[k])
        /\ (\A k \in 1..Len(Data) : WellFormed(Data[k])) =>
               /\ ret.raised = "none"
               /\ Len(ret.val.sutras) = Len(Data)
               /\ \A k \in 1..Len(Data) :
                      /\ \A f \in NumericFields :
                             ret.val.sutras[k].references[f]
                                 = NumberOrZero(Data[k].fields[f])
                      /\ ret.val.sutras[k].sutra_type_info
                             = SutraTypeInfo_from_string(Data[k].fields["type"]).val
                      /\ ret.val.sutras[k].backlinks.anuvritti
                             = from_string(Data[k].fields["an"], ANUVRITTI).val
                      /\ ret.val.sutras[k].backlinks.adhikara
                             = from_string(Data[k].fields["ad"], ADHIKARA).val
                      /\ ret.val.sutras[k].text
                             = [sanskrit |-> Data[k].fields["s"],
                                english |-> Data[k].fields["e"]]

\* a record whose skn, type, an and pc fields hold unparsable text was
\* loaded, with 0 for skn and nothing parsed from type and an
C17_Witness ==
    /\ pc = "done"
    /\ Loadable
    /\ Len(Data) = 2
    /\ Data[2].type = "dict"
    /\ WellFormed(Data[2])
    /\ Data[2].fields["skn"] = <<"x">>
    /\ Data[2].fields["type"] = <<"Z">>
    /\ Data[2].fields["an"] = ExLetters
    /\ ret.raised = "none"
    /\ ret.val.sutras[2].references.skn = 0
    /\ ret.val.sutras[2].sutra_type_info.classifications = <<>>
    /\ ret.val.sutras[2].backlinks.anuvritti.references = <<>>

\* a non-empty pc string none of whose entries is a word analysis
NothingParses(pc_value) ==
    /\ pc_value # <<>>
    /\ \A entry \in { Split(pc_value, <<"#", "#">>)[k] :
                        k \in 1..Len(Split(pc_value, <<"#", "#">>)) } :
           ~PadaAccepts(entry)

NamedFields(msg) == { msg.fields[k] : k \in 1..Len(msg.fields) }

\* the first of a, p, n that int() refuses
FirstNonNumeric(fields) ==
    IF ~IsNumber(fields["a"]) THEN "a"
    ELSE IF ~IsNumber(fields["p"]) THEN "p" ELSE "n"

\* C19 as stated: the error of a record that lacks a required field or has
\* a non-numeric a, p or n identifies the record index and the field name
\* concerned.
C19_Original ==
    Finished /\ Loadable =>
        \A k \in 1..Len(Data) :
            FirstDefective(k) /\ (LacksField(Data[k]) \/ NonNumeric(Data[k])) =>
                /\ ret.raised # "none"
                /\ ret.val.index = Some(k - 1)
                /\ LacksField(Data[k]) =>
                       \A f \in FieldNames \ DOMAIN Data[k].fields :
                           f \in NamedFields(ret.val)
                /\ NonNumeric(Data[k]) =>
                       FirstNonNumeric(Data[k].fields) \in NamedFields(ret.val)

\* C19, amended: the first record that lacks a required field or has a
\* non-numeric a, p or n aborts the load with an error that identifies the
\* record index; the KeyError of a missing field also lists the missing
\* field names; the ValueError of a non-numeric a, p or n names no field:
\* it wraps the message of int(), which quotes the refused value.
C19_ErrorContent ==
    Finished /\ Loadable =>
        \A k \in 1..Len(Data) :
            FirstDefective(k) /\ (LacksField(Data[k]) \/ NonNumeric(Data[k])) =>
                /\ ret.raised # "none"
                /\ ret.val.index = Some(k - 1)
                /\ LacksField(Data[k]) =>
                       /\ ret.raised = "KeyError"
                       /\ ret.val.text = "Missing required fields in sutra at index"
                       /\ NamedFields(ret.val) = FieldNames \ DOMAIN Data[k].fields
                /\ NonNumeric(Data[k]) =>
                       /\ ret.raised = "ValueError"
                       /\ ret.val.text = "Error creating Sutra object at index"
                       /\ NamedFields(ret.val) = {}
                       /\ ret.val.cause[1].raised = "ValueError"
                       /\ ret.val.cause[1].val.text
                              = "invalid literal for int() with base 10"
                       /\ NamedFields(ret.val.cause[1].val) = {}
                       /\ ret.val.cause[1].val.cause
                              = Some(Data[k].fields[FirstNonNumeric(Data[k].fields)])

\* the only record has the letter q for quarter: the error has index 0 and
\* quotes q, without a field name
C19_Witness ==
    /\ pc = "done"
    /\ Loadable
    /\ Len(Data) = 1
    /\ NonNumeric(Data[1])
    /\ Data[1].fields["p"] = <<"q">>
    /\ ret.raised = "ValueError"
    /\ ret.val.index = Some(0)
    /\ ret.val.fields = <<>>
    /\ ret.val.cause[1].val.cause = Some(<<"q">>)

(***************************************************************************)
(* Properties of SutraCollection.                                          *)
(***************************************************************************)

\* the string asked for: the argument itself, or the reference string of
\* the SutraReference
AskedReference ==
    IF args.reference.type = "SutraReference"
    THEN reference(args.reference.value.sutra_id)
    ELSE args.reference.value

\* the positions of the sutras whose reference string is the one asked for
Matching ==
    { k \in 1..Len(other.val.sutras) :
        reference(other.val.sutras[k].identifier) = AskedReference }

\* C20: get_by_reference returns the first sutra in insertion order whose
\* reference string equals the given reference, given as a string or as a
\* SutraReference, and returns None, without raising, when no sutra
\* matches.
C20_FirstMatch ==
    pc = "done" =>
        /\ ret.raised = "none"
        /\ Matching = {} => ret.val = None
        /\ Matching # {} =>
               \E k \in Matching :
                   /\ \A j \in Matching : k <= j
                   /\ ret.val = Some(other.val.sutras[k])

\* of two sutras with the same identifier and different texts, asked for
\* by a SutraReference, the first was returned
C20_Witness ==
    /\ pc = "done"
    /\ args.reference.type = "SutraReference"
    /\ Matching = {2, 3}
    /\ other.val.sutras[2].text # other.val.sutras[3].text
    /\ ret.val = Some(other.val.sutras[2])

\* the three text fields of a sutra that are searched
SearchedFields(sutra) == {sutra.text.sanskrit, sutra.text.english, sutra.ss}

\* the text occurs in the field at some position
OccursIn(text, field) ==
    \E from \in 1..(Len(field) + 1) :
        /\ from + Len(text) - 1 <= Len(field)
        /\ \A k \in 1..Len(text) : field[from + k - 1] = text[k]

\* the text occurs in one of the three fields, both sides lower-cased
\* unless the search is case sensitive
Found(sutra, text, case_sensitive) ==
    \E field \in SearchedFields(sutra) :
        IF case_sensitive THEN OccursIn(text, field)
        ELSE OccursIn(Lower(text), Lower(field))

\* C21: search_text returns exactly the sutras for which the search text
\* occurs in at least one of sanskrit text, transliteration and ss, both
\* sides lower-cased unless case_sensitive is true; each matching sutra
\* appears once, even when several fields match, in insertion order.
C21_SearchText ==
    cmp # <<>> /\ cmp.op = "search_text" =>
        /\ cmp.result.raised = "none"
        /\ cmp.result.val =
               SelectSeq(other.val.sutras,
                         LAMBDA sutra : Found(sutra, cmp.text, cmp.case_sensitive))

\* a search without case for "ba" kept the first and third sutra, whose
\* transliteration is "BA", and skipped the second; the same search with
\* case finds none
C21_Witness ==
    /\ cmp # <<>> /\ cmp.op = "search_text"
    /\ cmp.text = <<"b", "a">>
    /\ ~cmp.case_sensitive
    /\ Len(other.val.sutras) = 3
    /\ Len(cmp.result.val) = 2
    /\ cmp.result.val = <<other.val.sutras[1], other.val.sutras[3]>>
    /\ search_text(other.val, cmp.text, TRUE).val = <<>>


\* the identifier triple that a record's a, p and n fields name
RecordTriple(element) ==
    <<PyInt(element.fields["a"]).val, PyInt(element.fields["p"]).val,
      PyInt(element.fields["n"]).val>>

\* C22: a successfully loaded collection holds exactly one sutra per source
\* record, in the order of the source file: the k-th sutra is built from
\* the k-th record; the sutras are not sorted by identifier and records
\* with the same identifier are all retained.
C22_OnePerRecord ==
    Finished /\ ret.raised = "none" =>
        /\ Len(ret.val.sutras) = Len(Data)
        /\ \A k \in 1..Len(Data) :
               /\ IdTuple(ret.val.sutras[k].identifier) = RecordTriple(Data[k])
               /\ ret.val.sutras[k].text.sanskrit = Data[k].fields["s"]
               /\ ret.val.sutras[k].text.english = Data[k].fields["e"]
               /\ ret.val.sutras[k].ss = Data[k].fields["ss"]
               /\ ret.val.sutras[k].references.skn
                      = NumberOrZero(Data[k].fields["skn"])

\* three records 2.1.1, 1.1.1, 1.1.1 were loaded: the collection holds
\* three sutras in that order, out of identifier order and with the
\* duplicate kept
C22_Witness ==
    /\ pc = "done"
    /\ ret.raised = "none"
    /\ Len(Data) = 3
    /\ Len(ret.val.sutras) = 3
    /\ SutraIdentifier_lt(ret.val.sutras[2].identifier,
                          ret.val.sutras[1].identifier)
    /\ SutraIdentifier_eq(ret.val.sutras[2].identifier,
                          ret.val.sutras[3].identifier)
    /\ ret.val.sutras[2] # ret.val.sutras[3]
    /\ ret.val.sutras[3].references.skn = 0


\* the two sutras that were compared
Left == other.val.sutras[cmp.i]
Right == other.val.sutras[cmp.j]

\* the order of (adhyaya, pada, number) triples
TripleBefore(x, y) ==
    \/ x.adhyaya < y.adhyaya
    \/ x.adhyaya = y.adhyaya /\ x.pada < y.pada
    \/ x.adhyaya = y.adhyaya /\ x.pada = y.pada /\ x.number < y.number

TripleSame(x, y) ==
    x.adhyaya = y.adhyaya /\ x.pada = y.pada /\ x.number = y.number

\* the fields of a sutra other than its identifier
OtherFields ==
    {"text", "references", "pada_vibhaga", "sutra_type_info", "backlinks", "ss"}

\* C23: equality, ordering and hashing of sutras depend only on the
\* identifier: two sutras with equal (adhyaya, pada, number) are equal and
\* have equal hashes even when every other field differs, and <, <=, >, >=
\* on sutras give what the same comparison of their identifiers gives.
C23_IdentifierOnly ==
    cmp # <<>> /\ cmp.op = "compare" =>
        /\ cmp.eq = TripleSame(Left.identifier, Right.identifier)
        /\ cmp.eq => cmp.hash = cmp.other_hash
        /\ cmp.lt = TripleBefore(Left.identifier, Right.identifier)
        /\ cmp.gt = TripleBefore(Right.identifier, Left.identifier)
        /\ cmp.le = ~TripleBefore(Right.identifier, Left.identifier)
        /\ cmp.ge = ~TripleBefore(Left.identifier, Right.identifier)
        /\ cmp.lt = SutraIdentifier_lt(Left.identifier, Right.identifier)
        /\ cmp.le = SutraIdentifier_le(Left.identifier, Right.identifier)
        /\ cmp.gt = SutraIdentifier_gt(Left.identifier, Right.identifier)
        /\ cmp.ge = SutraIdentifier_ge(Left.identifier, Right.identifier)

\* two sutras with the same triple that differ in every other field were
\* compared: they are equal, hash alike, and neither is before the other
C23_Witness ==
    /\ cmp # <<>> /\ cmp.op = "compare"
    /\ cmp.i # cmp.j
    /\ TripleSame(Left.identifier, Right.identifier)
    /\ \A f \in OtherFields : Left[f] # Right[f]
    /\ cmp.eq /\ cmp.hash = cmp.other_hash
    /\ cmp.le /\ cmp.ge /\ ~cmp.lt /\ ~cmp.gt


\* the n-th smallest position of a set of positions
NthPosition(positions, n) ==
    CHOOSE k \in positions : Cardinality({m \in positions : m <= k}) = n

\* the sutras at the given positions of a list, in the order of the list
SutrasAt(sutras, positions) ==
    [n \in 1..Cardinality(positions) |-> sutras[NthPosition(positions, n)]]

\* the positions of the sutras of a chapter, and of a quarter of a chapter
InAdhyaya(adhyaya) ==
    { k \in 1..Len(other.val.sutras) :
        other.val.sutras[k].identifier.adhyaya = adhyaya }

InPada(adhyaya, pada) ==
    { k \in InAdhyaya(adhyaya) : other.val.sutras[k].identifier.pada = pada }

\* C24: get_by_adhyaya(a) returns exactly the sutras whose chapter is a and
\* get_by_pada(a, p) exactly those whose chapter is a and whose quarter is
\* p, both in insertion order; the sutras of get_by_pada(a, p) are among
\* those of get_by_adhyaya(a); both return an empty list when none matches.
C24_ChapterAndQuarter ==
    /\ cmp # <<>> /\ cmp.op = "get_by_adhyaya" =>
           /\ cmp.result.raised = "none"
           /\ cmp.result.val = SutrasAt(other.val.sutras, InAdhyaya(cmp.adhyaya))
           /\ InAdhyaya(cmp.adhyaya) = {} => cmp.result.val = <<>>
    /\ cmp # <<>> /\ cmp.op = "get_by_pada" =>
           /\ cmp.result.raised = "none"
           /\ cmp.result.val
                  = SutrasAt(other.val.sutras, InPada(cmp.adhyaya, cmp.pada))
           /\ InPada(cmp.adhyaya, cmp.pada) = {} => cmp.result.val = <<>>
           /\ \A n \in 1..Len(cmp.result.val) :
                  \E m \in 1..Len(get_by_adhyaya(other.val, cmp.adhyaya).val) :
                      get_by_adhyaya(other.val, cmp.adhyaya).val[m]
                          = cmp.result.val[n]

\* get_by_pada(1, 1) on the sutras 1.1.10, 2.1.1, 1.2.1 kept only the
\* first, while get_by_adhyaya(1) keeps the first and the third
C24_Witness ==
    /\ cmp # <<>> /\ cmp.op = "get_by_pada"
    /\ cmp.adhyaya = 1 /\ cmp.pada = 1
    /\ Len(other.val.sutras) = 3
    /\ IdTuple(other.val.sutras[1].identifier) = <<1, 1, 10>>
    /\ IdTuple(other.val.sutras[2].identifier) = <<2, 1, 1>>
    /\ IdTuple(other.val.sutras[3].identifier) = <<1, 2, 1>>
    /\ cmp.result.val = <<other.val.sutras[1]>>
    /\ get_by_adhyaya(other.val, 1).val
           = <<other.val.sutras[1], other.val.sutras[3]>>
    /\ get_by_pada(other.val, 3, 1).val = <<>>


(***************************************************************************)
(* Properties of an identifier after its construction.                     *)
(***************************************************************************)

\* C25: a SutraIdentifier is immutable once constructed: its adhyaya, pada
\* and number cannot be changed afterwards, so an identifier that is a
\* member of a set keeps the integers it was constructed from, keeps
\* satisfying the bounds of the construction, and keeps the hash it was
\* filed under.
C25_Immutable ==
    pc \in {"member", "assigned"} =>
        /\ IdTuple(ret.val) = <<args.adhyaya, args.pada, args.number>>
        /\ 1 <= ret.val.adhyaya /\ ret.val.adhyaya <= 8
        /\ 1 <= ret.val.pada /\ ret.val.pada <= 4
        /\ ret.val.number >= 1
        /\ SutraIdentifier_hash(ret.val) = cmp.key_hash


(***************************************************************************)
(* Properties of the order of the checks of read_sutras.                   *)
(***************************************************************************)

\* the checks of one record, and the checks of a whole call, in the order
\* that is claimed
RECURSIVE RecordChecks(_, _)
RecordChecks(i, n) ==
    IF i >= n THEN <<>>
    ELSE <<Step("dict", i), Step("fields", i), Step("build", i)>>
             \o RecordChecks(i + 1, n)

ClaimedOrder ==
    <<Step("exists", -1), Step("json", -1), Step("root", -1)>>
        \o RecordChecks(0, Len(Data))

\* a record with a, p and n of which one is not a number or is out of the
\* identifier's range
BadTriple(element) ==
    /\ element.type = "dict"
    /\ {"a", "p", "n"} \subseteq DOMAIN element.fields
    /\ \/ \E f \in {"a", "p", "n"} : ~IsNumber(element.fields[f])
       \/ PyInt(element.fields["a"]).val \notin 1..8
       \/ PyInt(element.fields["p"]).val \notin 1..4
       \/ PyInt(element.fields["n"]).val < 1

\* the input does not pass the check
Defect(step) ==
    CASE step.check = "exists" -> ~args.file.exists
      [] step.check = "json" -> ~args.file.valid_json
      [] step.check = "root" ->
             \/ args.file.root.type # "dict"
             \/ ~({"name", "data"} \subseteq args.file.root.keys)
             \/ args.file.root.data_type # "list"
      [] step.check = "dict" -> Data[step.index + 1].type # "dict"
      [] step.check = "fields" ->
             \E f \in FieldNames : f \notin DOMAIN Data[step.index + 1].fields
      [] step.check = "build" -> BadTriple(Data[step.index + 1])

\* the exceptions a failed check raises
ErrorsOf(step) ==
    CASE step.check = "exists" -> {"FileNotFoundError"}
      [] step.check = "json" -> {"ValueError"}
      [] step.check = "root" -> {"ValueError", "KeyError"}
      [] step.check = "dict" -> {"ValueError"}
      [] step.check = "fields" -> {"KeyError"}
      [] step.check = "build" -> {"ValueError"}

\* C26: read_sutras checks in a fixed order and stops at the first failure:
\* the existence of the file, the JSON syntax, the shape and keys of the
\* root, then the records in index order, for each record the required
\* fields before the coercion of the identifier.  A missing file fails
\* before anything is parsed, and with several defective records the
\* error is that of the defective record of lowest index.
C26_FixedOrder ==
    pc \in {"exists", "json", "root", "dict", "fields", "build", "done"}
    /\ cmp # <<>> =>
        /\ Len(cmp) <= Len(ClaimedOrder)
        /\ \A k \in 1..Len(cmp) : cmp[k] = ClaimedOrder[k]
        /\ \A k \in 1..(Len(cmp) - 1) : ~Defect(cmp[k])
        /\ pc # "done" => ~Defect(cmp[Len(cmp)])
        /\ pc = "done" =>
               /\ ret = read_sutras(args.file)
               /\ ret.raised = "none" =>
                      Len(cmp) = Len(ClaimedOrder) /\ ~Defect(cmp[Len(cmp)])
               /\ ret.raised # "none" =>
                      /\ Defect(cmp[Len(cmp)])
                      /\ ret.raised \in ErrorsOf(cmp[Len(cmp)])
                      /\ cmp[Len(cmp)].index >= 0 =>
                             ret.val.index = Some(cmp[Len(cmp)].index)
               /\ ~args.file.exists =>
                      /\ cmp = <<Step("exists", -1)>>
                      /\ ret.raised = "FileNotFoundError"

\* a file of three records, the second lacking a required field and the
\* third with a bad identifier: the load made the checks up to the fields
\* of the second record and raised its KeyError
C26_Witness ==
    /\ pc = "done"
    /\ Len(Data) = 3
    /\ ~Defective(Data[1])
    /\ Defect(Step("fields", 1))
    /\ Defect(Step("build", 2))
    /\ cmp = <<Step("exists", -1), Step("json", -1), Step("root", -1),
               Step("dict", 0), Step("fields", 0), Step("build", 0),
               Step("dict", 1), Step("fields", 1)>>
    /\ ret.raised = "KeyError"
    /\ ret.val.index = Some(1)


\* the list holds the same sutras as the other, each as often
Permutation(list, sutras) ==
    /\ Len(list) = Len(sutras)
    /\ \A k \in 1..Len(sutras) :
           Cardinality({ m \in 1..Len(list) : list[m] = sutras[k] })
               = Cardinality({ m \in 1..Len(sutras) : sutras[m] = sutras[k] })

NonDecreasing(list) ==
    \A k \in 1..(Len(list) - 1) :
        ~TripleBefore(list[k + 1].identifier, list[k].identifier)

\* one query: the collection is what it was, and what get_sorted returns
\* is a new list, a permutation of the sutras in non-decreasing order
QueryLeavesCollection ==
    /\ other' = other
    /\ cmp' # <<>> /\ cmp'.op = "get_sorted" =>
           /\ cmp'.result.raised = "none"
           /\ ~cmp'.same_list
           /\ Permutation(cmp'.result.val, other.val.sutras)
           /\ NonDecreasing(cmp'.result.val)
    /\ cmp' # <<>> /\ cmp'.op = "len" =>
           cmp'.result.val = Len(other.val.sutras)
    /\ cmp' # <<>> /\ cmp'.op = "iter" =>
           cmp'.result.val = other.val.sutras
    /\ cmp' # <<>> /\ cmp'.op = "getitem" /\ cmp'.index \in 0..(Len(other.val.sutras) - 1) =>
           cmp'.result.val = other.val.sutras[cmp'.index + 1]

\* C27: no query on a collection (get_by_reference, get_by_adhyaya,
\* get_by_pada, search_text, get_sorted, length, indexing, iteration)
\* changes it: its name and its list of sutras are what they were; and
\* get_sorted returns a new list, a permutation of the sutras in
\* non-decreasing identifier order, leaving the insertion order intact.
C27_QueriesReadOnly == [][QueryLeavesCollection]_vars

\* get_sorted was called on the sutras 2.1.1, 1.1.1, 1.1.1: it returned
\* them as second, third, first, and the collection still starts with 2.1.1
C27_Witness ==
    /\ cmp # <<>> /\ cmp.op = "get_sorted"
    /\ Len(other.val.sutras) = 3
    /\ IdTuple(other.val.sutras[1].identifier) = <<2, 1, 1>>
    /\ IdTuple(other.val.sutras[2].identifier) = <<1, 1, 1>>
    /\ IdTuple(other.val.sutras[3].identifier) = <<1, 1, 1>>
    /\ other.val.sutras[2].ss # other.val.sutras[3].ss
    /\ cmp.result.val = <<other.val.sutras[2], other.val.sutras[3],
                          other.val.sutras[1]>>


(***************************************************************************)
(* Properties of two loads.                                                *)
(***************************************************************************)

\* two sutras with the same identifier, texts, references, word analysis,
\* classifications and backlinks
SameSutra(x, y) ==
    /\ IdTuple(x.identifier) = IdTuple(y.identifier)
    /\ reference(x.identifier) = reference(y.identifier)
    /\ x.text = y.text
    /\ x.ss = y.ss
    /\ x.references = y.references
    /\ x.pada_vibhaga = y.pada_vibhaga
    /\ x.sutra_type_info = y.sutra_type_info
    /\ x.backlinks = y.backlinks

\* C28: the parse of a record does not depend on the other records: in
\* two successful loads of documents that contain the same record, at any
\* positions, the sutra built from that record is the same, whatever the
\* other records are and in whatever order they stand.
C28_RecordsIndependent ==
    pc = "done" /\ ret.raised = "none" /\ other.raised = "none" =>
        \A j \in 1..Len(args.file.root.data),
           k \in 1..Len(args.second.root.data) :
            args.file.root.data[j] = args.second.root.data[k] =>
                SameSutra(ret.val.sutras[j], other.val.sutras[k])

\* two loads succeeded; the first record of the first file, with carryover
\* references, is the third record of the second file, after other records
C28_Witness ==
    /\ pc = "done" /\ ret.raised = "none" /\ other.raised = "none"
    /\ Len(args.file.root.data) = 2
    /\ Len(args.second.root.data) = 3
    /\ args.file.root.data[1] = args.second.root.data[3]
    /\ args.file.root.data[2] # args.second.root.data[1]
    /\ args.second.root.data[1] # args.second.root.data[2]
    /\ ret.val.sutras[1].backlinks.anuvritti.references # <<>>
    /\ ret.val.sutras[1].backlinks.adhikara.references # <<>>
    /\ ret.val.sutras[1].pada_vibhaga # None
    /\ SameSutra(ret.val.sutras[1], other.val.sutras[3])
    /\ ret.val.sutras[1] # other.val.sutras[3]


(***************************************************************************)
(* Properties of the two carryover grammars together.                      *)
(***************************************************************************)

\* the text was parsed under ANUVRITTI and under ADHIKARA
BothKinds ==
    /\ pc = "both"
    /\ {ret.val.carryover_type, other.val.carryover_type} = {ANUVRITTI, ADHIKARA}

\* the references found under a kind
Under(kind) ==
    IF ret.val.carryover_type = kind THEN ret.val.references
    ELSE other.val.references

\* the number of '$' parts of an entry
PartCount(entry) == Len(Split(entry, <<"$">>))

\* the entry alone yields a reference under the kind
Yields(entry, kind) == from_string(entry, kind).val.references # <<>>

\* C29: the two carryover grammars are disjoint per entry: an entry that
\* yields a reference under ANUVRITTI (exactly 2 '$' parts) yields none
\* under ADHIKARA (exactly 4 '$' parts) and the converse, so no entry is
\* accepted under both kinds, and the two parses of a text draw their
\* references from different entries.
C29_GrammarsDisjoint ==
    BothKinds =>
        /\ \A k \in 1..Len(Entries) :
               /\ Yields(Entries[k], ANUVRITTI) => PartCount(Entries[k]) = 2
               /\ Yields(Entries[k], ADHIKARA) => PartCount(Entries[k]) = 4
               /\ ~(Yields(Entries[k], ANUVRITTI) /\ Yields(Entries[k], ADHIKARA))
        /\ Len(Under(ANUVRITTI)) =
               Cardinality({ k \in 1..Len(Entries) : Yields(Entries[k], ANUVRITTI) })
        /\ Len(Under(ADHIKARA)) =
               Cardinality({ k \in 1..Len(Entries) : Yields(Entries[k], ADHIKARA) })
        /\ Len(Under(ANUVRITTI)) + Len(Under(ADHIKARA)) <= Len(Entries)
        /\ Len(Entries) = 1 => Under(ANUVRITTI) = <<>> \/ Under(ADHIKARA) = <<>>

\* a text with an entry of each format was parsed under both kinds: each
\* parse found one reference, from its own entry
C29_Witness ==
    /\ BothKinds
    /\ Len(Entries) >= 2
    /\ \E j \in 1..Len(Entries), k \in 1..Len(Entries) :
           /\ Yields(Entries[j], ANUVRITTI) /\ ~Yields(Entries[j], ADHIKARA)
           /\ Yields(Entries[k], ADHIKARA) /\ ~Yields(Entries[k], ANUVRITTI)
    /\ Len(Under(ANUVRITTI)) = 1
    /\ Len(Under(ADHIKARA)) = 1


\* the number of '##' entries of the text that contain '$'
DollarEntries ==
    Cardinality({ k \in 1..Len(Entries) : Contains(Entries[k], "$") })

\* every reference has an identifier within the bounds of the construction
WithinBounds(references) ==
    \A k \in 1..Len(references) :
        /\ references[k].sutra_id.adhyaya \in 1..8
        /\ references[k].sutra_id.pada \in 1..4
        /\ references[k].sutra_id.number >= 1

\* C30: for every text and either kind, every reference of the
\* SutraCarryover that from_string returns has an identifier within bounds
\* (adhyaya 1..8, pada 1..4, number >= 1), and there are no more references
\* than '##' entries that contain '$'; hence a Backlinks built by
\* from_strings with a parsed reference in a slot reports that slot as
\* having content.
C30_ReferencesBounded ==
    /\ pc \in {"done", "both", "backlinks"}
       /\ args.carryover_type \in {ANUVRITTI, ADHIKARA} =>
           /\ ret.raised = "none"
           /\ WithinBounds(ret.val.references)
           /\ Len(ret.val.references) <= DollarEntries
    /\ pc = "both" /\ other.val.carryover_type \in {ANUVRITTI, ADHIKARA} =>
           /\ WithinBounds(other.val.references)
           /\ Len(other.val.references) <= DollarEntries
    /\ pc = "backlinks" =>
           /\ WithinBounds(cmp.anuvritti.references)
           /\ WithinBounds(cmp.adhikara.references)
           /\ Len(cmp.anuvritti.references) <= DollarEntries
           /\ Len(cmp.adhikara.references) <= DollarEntries
           /\ Len(cmp.anuvritti.references) >= 1 => cmp.has_anuvritti
           /\ Len(cmp.adhikara.references) >= 1 => cmp.has_adhikara

\* a text of three entries with '$', one of which is not decodable, gave
\* two references under ANUVRITTI and none under ADHIKARA; the Backlinks
\* of the text reports content in both slots, the text being non-blank
C30_Witness ==
    /\ pc = "backlinks"
    /\ DollarEntries = 3
    /\ Len(cmp.anuvritti.references) = 2
    /\ cmp.adhikara.references = <<>>
    /\ \E k \in 1..Len(Entries) :
           Contains(Entries[k], "$") /\ ~Yields(Entries[k], ANUVRITTI)
    /\ cmp.has_adhikara
    /\ cmp.has_anuvritti

=============================================================================
